---- MODULE Spec2Model ----
(***************************************************************************)
(* Model of the data-acquisition layer of the Octopus Agile dashboard:     *)
(* the RateLimiter (rate-limiter part of src/lib/price-utils.ts), the      *)
(* EnergyService built on it, and the validation helpers of                *)
(* src/lib/validation.ts.                                                  *)
(*                                                                         *)
(* Time is in milliseconds, as Date.now() reports it.  JavaScript runs one *)
(* synchronous segment (the code between two awaits) at a time, so every   *)
(* action below is one such segment and reads one clock value.  A timer    *)
(* (setTimeout) never fires early; it may fire late.                       *)
(***************************************************************************)
EXTENDS Integers, Sequences, FiniteSets, TLC

VARIABLES
    now,          \* the clock, Date.now()
    options,      \* RateLimiter.options (readonly after construction)
    requests,     \* RateLimiter.requests: recorded request timestamps
    lastRequest,  \* RateLimiter.lastRequest
    callers,      \* one record per pending or finished execute() call
    abandoned,    \* work units still running after their call timed out
    svc,          \* the EnergyService call of the current request cycle
    cycle,        \* the request/render cycle: what cache() holds for it
    pure,         \* the last call of a pure helper: its input and what it returned
    stats         \* what the last getStats() call returned, until it is read

vars == <<now, options, requests, lastRequest, callers, abandoned, svc, cycle, pure, stats>>

----------------------------------------------------------------------------
(* Bounds of the model *)

\* Date.now() when the limiter is constructed
StartTime == 100000
\* the clock advances in steps of Step ms
Step == 1000
\* the clock stops MaxElapsed ms after StartTime (one execute call at a time)
MaxElapsed == 7000
\* the clock stops MaxElapsedOverlap ms after StartTime (overlapping execute calls)
MaxElapsedOverlap == 5000
\* the same two for the EnergyService with every kind of upstream failure
StepSvc == 5000
MaxElapsedSvc == 20000
\* the same two for the EnergyService paging through an upstream that answers
StepPaging == 2000
MaxElapsedPaging == 20000
\* abandoned work units tracked at once; one more is taken never to settle
MaxAbandoned == 1

Callers == {"a", "b"}

----------------------------------------------------------------------------
(* Program constants *)

\* execute(): "retryAfter <= 60"
MaxWaitSeconds == 60
\* exponentialBackoff(): baseDelay
baseDelay == 1000
\* exponentialBackoff(): maxDelay
maxDelay == 30000

\* new RateLimiter(options): the option sets the model constructs limiters with
ShortWindow ==
    [maxRequests |-> 2, windowMs |-> 5000, minInterval |-> 2000,
     maxRetries |-> 2, timeoutMs |-> 2000]
LongWindow ==
    [maxRequests |-> 2, windowMs |-> 62000, minInterval |-> 1000,
     maxRetries |-> 1, timeoutMs |-> 1000]
LimiterConfigs == {ShortWindow, LongWindow}

\* octopusApiRateLimiter
octopusApiRateLimiter ==
    [maxRequests |-> 30, windowMs |-> 60 * 1000, minInterval |-> 2000,
     maxRetries |-> 3, timeoutMs |-> 15000]

----------------------------------------------------------------------------
(* Errors: name is the class, hasStatus/status the optional `status`       *)
(* property, retryAfter the RateLimitError field (-1: undefined), attempt  *)
(* the attempt of execute() during which it was thrown.                    *)

MkError(name, hasStatus, status, retryAfter, msg) ==
    [name |-> name, hasStatus |-> hasStatus, status |-> status,
     retryAfter |-> retryAfter, msg |-> msg, attempt |-> 0]

\* `error`, thrown during attempt `attempt`
ThrownIn(error, attempt) == [error EXCEPT !.attempt = attempt]

NoError == MkError("none", FALSE, 0, -1, "")

RateLimitError(msg, retryAfter) == MkError("RateLimitError", FALSE, 0, retryAfter, msg)

TimeoutError(msg) == MkError("TimeoutError", FALSE, 0, -1, msg)

GenericError(msg) == MkError("Error", FALSE, 0, -1, msg)

StatusError(status) == MkError("Error", TRUE, status, -1, "status")

\* what a work unit handed to execute() directly may throw
WorkErrors ==
    {GenericError("boom"), StatusError(404), StatusError(500),
     RateLimitError("from work unit", -1)}

----------------------------------------------------------------------------
(* Arithmetic helpers *)

Min2(a, b) == IF a <= b THEN a ELSE b

\* Math.ceil(a / b) for b > 0
CeilDiv(a, b) == -((-a) \div b)

RECURSIVE Pow2(_)
Pow2(n) == IF n = 0 THEN 1 ELSE 2 * Pow2(n - 1)

RECURSIVE SeqMin(_)
SeqMin(s) ==
    IF Len(s) = 1 THEN s[1] ELSE Min2(s[1], SeqMin(Tail(s)))

----------------------------------------------------------------------------
(* RateLimiter *)

\* cleanOldRequests() keeping the timestamp that is exactly windowMs old
cleanOldRequestsInclusive(reqs, t) ==
    SelectSeq(reqs, LAMBDA timestamp : t - timestamp <= options.windowMs)

\* this.requests.filter(time => now - time < this.options.windowMs)
cleanOldRequests(reqs, t) ==
    SelectSeq(reqs, LAMBDA timestamp : t - timestamp < options.windowMs)

\* canMakeRequest() with the count check off by one: `>` for `>=`
canMakeRequestOffByOne(reqs, last, t) ==
    LET cleaned == cleanOldRequests(reqs, t)
        timeSinceLastRequest == t - last
    IN  IF Len(cleaned) > options.maxRequests
        THEN [allowed |-> FALSE,
              retryAfter |-> CeilDiv(SeqMin(cleaned) + options.windowMs - t, 1000),
              requests |-> cleaned, denied |-> "count"]
        ELSE IF timeSinceLastRequest < options.minInterval
        THEN [allowed |-> FALSE,
              retryAfter |-> CeilDiv(options.minInterval - timeSinceLastRequest, 1000),
              requests |-> cleaned, denied |-> "interval"]
        ELSE [allowed |-> TRUE, retryAfter |-> 0, requests |-> cleaned, denied |-> ""]

\* canMakeRequest(): the verdict, this.requests as cleanOldRequests left it, and
\* which of the two checks denied the request
canMakeRequest(reqs, last, t) ==
    LET cleaned == cleanOldRequests(reqs, t)
        timeSinceLastRequest == t - last
    IN  IF Len(cleaned) >= options.maxRequests
        THEN [allowed |-> FALSE,
              retryAfter |-> CeilDiv(SeqMin(cleaned) + options.windowMs - t, 1000),
              requests |-> cleaned, denied |-> "count"]
        ELSE IF timeSinceLastRequest < options.minInterval
        THEN [allowed |-> FALSE,
              retryAfter |-> CeilDiv(options.minInterval - timeSinceLastRequest, 1000),
              requests |-> cleaned, denied |-> "interval"]
        ELSE [allowed |-> TRUE, retryAfter |-> 0, requests |-> cleaned, denied |-> ""]

\* exponentialBackoff() without Math.min(..., maxDelay)
backoffDelayUncapped(attempt) == baseDelay * Pow2(attempt)

\* exponentialBackoff(): delay before jitter
backoffDelay(attempt) == Min2(baseDelay * Pow2(attempt), maxDelay)

\* Math.random() * 0.1 * delay lies in [0, delay / 10): its two extremes in whole ms
Jitters(delay) == {0, (delay \div 10) - 1}

\* the "don't retry" test without its TimeoutError case
NonRetryableButTimeout(error) ==
    \/ error.name = "RateLimitError"
    \/ /\ error.hasStatus
       /\ error.status \in {401, 403, 404}

\* the catch block of execute(), entered with `error` during attempt cr.attempt
NonRetryable(error) ==
    \/ error.name = "TimeoutError"
    \/ error.name = "RateLimitError"
    \/ /\ error.hasStatus
       /\ error.status \in {401, 403, 404}

\* the catch block retrying once more than maxRetries
CatchOneRetryMore(cr, error, jitter) ==
    IF NonRetryable(error)
    THEN [cr EXCEPT !.pc = "failed", !.lastError = error]
    ELSE IF cr.attempt = options.maxRetries + 1
    THEN [cr EXCEPT !.pc = "failed", !.lastError = error]
    ELSE [cr EXCEPT !.pc = "backoff", !.lastError = error,
                    !.backoffs = @ + 1,
                    !.wakeAt = now + backoffDelay(cr.attempt) + jitter]

\* pc "failed": execute() has thrown cr.lastError
Catch(cr, error, jitter) ==
    IF NonRetryable(error)
    THEN [cr EXCEPT !.pc = "failed", !.lastError = error]
    ELSE IF cr.attempt = options.maxRetries
    THEN [cr EXCEPT !.pc = "failed", !.lastError = error]
    ELSE [cr EXCEPT !.pc = "backoff", !.lastError = error,
                    !.backoffs = @ + 1,
                    !.wakeAt = now + backoffDelay(cr.attempt) + jitter]

\* A call of execute(): pc is where it stands, attempt and lastError its locals,
\* wakeAt the time its pending delay() is due, fnStart the time fn() was called.
\* The other fields record what the call has done: fn() invocations, backoff
\* waits, the last retryAfter that denied it and which check that was, and
\* whether withTimeout's timer ended it.
IdleCaller ==
    [pc |-> "idle", attempt |-> 0, wakeAt |-> 0, fnStart |-> 0,
     invocations |-> 0, backoffs |-> 0, retryAfter |-> 0, denied |-> "",
     lastError |-> NoError, timedOut |-> FALSE]

\* the wait test with `<` for `<=`
ShouldWaitBelow(retryAfter) == retryAfter # 0 /\ retryAfter < MaxWaitSeconds

\* `retryAfter && retryAfter <= 60`
ShouldWait(retryAfter) == retryAfter # 0 /\ retryAfter <= MaxWaitSeconds

\* fn() called without the request being recorded
InvokeUnrecorded(c, cr, reqs) ==
    /\ requests' = reqs
    /\ lastRequest' = lastRequest
    /\ callers' = [callers EXCEPT ![c] =
                     [cr EXCEPT !.pc = "running", !.fnStart = now, !.wakeAt = 0,
                                !.invocations = @ + 1]]

\* "Record request" and "Execute with timeout": push, set lastRequest, call fn()
RecordAndInvoke(c, cr, reqs) ==
    /\ requests' = Append(reqs, now)
    /\ lastRequest' = now
    /\ callers' = [callers EXCEPT ![c] =
                     [cr EXCEPT !.pc = "running", !.fnStart = now, !.wakeAt = 0,
                                !.invocations = @ + 1]]

\* one pass of the loop body up to its first await, for attempt cr.attempt
BeginAttempt(c, cr) ==
    LET cm == canMakeRequest(requests, lastRequest, now) IN
    IF cm.allowed
    THEN RecordAndInvoke(c, cr, cm.requests)
    ELSE IF ShouldWait(cm.retryAfter)
    THEN /\ requests' = cm.requests
         /\ lastRequest' = lastRequest
         /\ callers' = [callers EXCEPT ![c] =
                          [cr EXCEPT !.pc = "waitBudget",
                                     !.retryAfter = cm.retryAfter,
                                     !.denied = cm.denied,
                                     !.wakeAt = now + cm.retryAfter * 1000]]
    ELSE /\ requests' = cm.requests
         /\ lastRequest' = lastRequest
         /\ callers' = [callers EXCEPT ![c] =
                          Catch([cr EXCEPT !.retryAfter = cm.retryAfter,
                                           !.denied = cm.denied],
                                ThrownIn(RateLimitError("Rate limit exceeded", cm.retryAfter),
                                         cr.attempt),
                                0)]

\* a caller calls execute(fn)
Execute(c) ==
    /\ callers[c].pc = "idle"
    /\ BeginAttempt(c, IdleCaller)
    /\ UNCHANGED <<cycle, pure, now, options, abandoned, svc, stats>>

\* as Execute, when no other execute call is pending
ExecuteSeq(c) ==
    /\ \A d \in Callers \ {c} : callers[d].pc \in {"idle", "done", "failed"}
    /\ Execute(c)

\* `await this.delay(retryAfter * 1000)` returns: the request is recorded and fn called
BudgetWaitEnds(c) ==
    /\ callers[c].pc = "waitBudget"
    /\ now >= callers[c].wakeAt
    /\ RecordAndInvoke(c, callers[c], requests)
    /\ UNCHANGED <<cycle, pure, now, options, abandoned, svc, stats>>

\* `await this.exponentialBackoff(attempt)` returns: attempt++ and the loop body again
BackoffEnds(c) ==
    /\ callers[c].pc = "backoff"
    /\ now >= callers[c].wakeAt
    /\ BeginAttempt(c, [callers[c] EXCEPT !.attempt = @ + 1])
    /\ UNCHANGED <<cycle, pure, now, options, abandoned, svc, stats>>

\* fn()'s promise resolves first in withTimeout's race
WorkResolves(c) ==
    /\ callers[c].pc = "running"
    /\ callers' = [callers EXCEPT ![c].pc = "done"]
    /\ UNCHANGED <<cycle, pure, now, options, requests, lastRequest, abandoned, svc, stats>>

\* fn()'s promise rejects first in withTimeout's race
WorkRejects(c) ==
    /\ callers[c].pc = "running"
    /\ \E error \in WorkErrors :
         \E jitter \in Jitters(backoffDelay(callers[c].attempt)) :
            callers' = [callers EXCEPT ![c] =
                          Catch(callers[c], ThrownIn(error, callers[c].attempt), jitter)]
    /\ UNCHANGED <<cycle, pure, now, options, requests, lastRequest, abandoned, svc, stats>>

\* withTimeout() without its timer: the race is left to fn()'s promise
TimeoutNeverFires(c) ==
    /\ callers[c].pc = "running"
    /\ FALSE
    /\ UNCHANGED vars

\* withTimeout's timer fires first: TimeoutError, fn()'s promise is left behind
TimeoutFires(c) ==
    /\ callers[c].pc = "running"
    /\ now >= callers[c].fnStart + options.timeoutMs
    /\ callers' = [callers EXCEPT ![c] =
                     Catch([callers[c] EXCEPT !.timedOut = TRUE],
                           ThrownIn(TimeoutError("Request timed out"), callers[c].attempt),
                           0)]
    /\ abandoned' = Min2(abandoned + 1, MaxAbandoned)
    /\ UNCHANGED <<cycle, pure, now, options, requests, lastRequest, svc, stats>>

\* a promise that lost the race settles: Promise.race has already settled
AbandonedSettles ==
    /\ abandoned > 0
    /\ abandoned' = abandoned - 1
    /\ UNCHANGED <<cycle, pure, now, options, requests, lastRequest, callers, svc, stats>>

\* no getStats() result is waiting to be read
NoStats ==
    [called |-> FALSE, recentRequests |-> 0, windowMs |-> 0, canMakeRequest |-> FALSE,
     nextAvailableTime |-> <<>>]

\* getStats() that notes the time of the call in lastRequest
GetStatsTouching ==
    /\ stats = NoStats
    /\ LET cm == canMakeRequest(cleanOldRequests(requests, now), lastRequest, now)
       IN  /\ requests' = cm.requests
           /\ lastRequest' = now
           /\ stats' = [called |-> TRUE,
                        recentRequests |-> Len(cm.requests),
                        windowMs |-> options.windowMs,
                        canMakeRequest |-> cm.allowed,
                        nextAvailableTime |->
                            IF cm.retryAfter # 0 THEN <<now + cm.retryAfter * 1000>>
                            ELSE <<>>]
    /\ UNCHANGED <<cycle, pure, now, options, callers, abandoned, svc>>

\* getStats(): cleanOldRequests(), canMakeRequest(), and the object returned;
\* nextAvailableTime is <<>> for undefined, <<t>> for the Date of time t
GetStats ==
    /\ stats = NoStats
    /\ LET cm == canMakeRequest(cleanOldRequests(requests, now), lastRequest, now)
       IN  /\ requests' = cm.requests
           /\ stats' = [called |-> TRUE,
                        recentRequests |-> Len(cm.requests),
                        windowMs |-> options.windowMs,
                        canMakeRequest |-> cm.allowed,
                        nextAvailableTime |->
                            IF cm.retryAfter # 0 THEN <<now + cm.retryAfter * 1000>>
                            ELSE <<>>]
    /\ UNCHANGED <<cycle, pure, now, options, lastRequest, callers, abandoned, svc>>

\* the caller of getStats() has read the result
StatsRead ==
    /\ stats # NoStats
    /\ stats' = NoStats
    /\ UNCHANGED <<cycle, pure, now, options, requests, lastRequest, callers, abandoned, svc>>

\* the caller has the result of its call and may call again
Return(c) ==
    /\ callers[c].pc \in {"done", "failed"}
    /\ callers' = [callers EXCEPT ![c] = IdleCaller]
    /\ UNCHANGED <<cycle, pure, now, options, requests, lastRequest, abandoned, svc, stats>>

Tick ==
    /\ now + Step <= StartTime + MaxElapsed
    /\ now' = now + Step
    /\ UNCHANGED <<cycle, pure, options, requests, lastRequest, callers, abandoned, svc, stats>>

TickOverlap ==
    /\ now + Step <= StartTime + MaxElapsedOverlap
    /\ now' = now + Step
    /\ UNCHANGED <<cycle, pure, options, requests, lastRequest, callers, abandoned, svc, stats>>

TickPaging ==
    /\ now + StepPaging <= StartTime + MaxElapsedPaging
    /\ now' = now + StepPaging
    /\ UNCHANGED <<cycle, pure, options, requests, lastRequest, callers, abandoned, svc, stats>>

TickSvc ==
    /\ now + StepSvc <= StartTime + MaxElapsedSvc
    /\ now' = now + StepSvc
    /\ UNCHANGED <<cycle, pure, options, requests, lastRequest, callers, abandoned, svc, stats>>

----------------------------------------------------------------------------
(* JSON values as response.json() yields them: t is the typeof, n the      *)
(* number, s the string.                                                   *)

JNum(n) == [t |-> "number", n |-> n, s |-> ""]

JStr(str) == [t |-> "string", n |-> 0, s |-> str]

JNull == [t |-> "null", n |-> 0, s |-> ""]

\* JavaScript truthiness of a JSON value used as a condition
Truthy(v) ==
    \/ v.t = "string" /\ v.s # ""
    \/ v.t = "number" /\ v.n # 0

\* the time strings of the model and what Date.parse makes of them, relative
\* to StartTime (nan: Date.parse returns NaN)
DateParse(str) ==
    CASE str = "2025-01-01T10:00:00Z" -> [nan |-> FALSE, ms |-> StartTime - 3600000]
      [] str = "2025-01-01T10:30:00Z" -> [nan |-> FALSE, ms |-> StartTime - 1800000]
      [] str = "2025-01-01T11:00:00Z" -> [nan |-> FALSE, ms |-> StartTime]
      [] str = "2025-01-01T11:30:00Z" -> [nan |-> FALSE, ms |-> StartTime + 1800000]
      [] str = "2025-01-01T12:00:00Z" -> [nan |-> FALSE, ms |-> StartTime + 3600000]
      [] OTHER -> [nan |-> TRUE, ms |-> 0]

\* the URL strings of the model and what `new URL(url)` makes of them
\* (throws: the constructor throws TypeError)
ParseUrl(str) ==
    CASE str = "https://api.octopus.energy/v1/products/AGILE-24-10-01/electricity-tariffs/E-1R-AGILE-24-10-01-G/standard-unit-rates/?period_from=F&period_to=T"
           -> [throws |-> FALSE, protocol |-> "https:", hostname |-> "api.octopus.energy"]
      [] str = "https://api.octopus.energy/v1/next-page"
           -> [throws |-> FALSE, protocol |-> "https:", hostname |-> "api.octopus.energy"]
      [] str = "http://api.octopus.energy/v1/next-page"
           -> [throws |-> FALSE, protocol |-> "http:", hostname |-> "api.octopus.energy"]
      [] str = "https://api.octopus.energy.evil.example/v1/next-page"
           -> [throws |-> FALSE, protocol |-> "https:", hostname |-> "api.octopus.energy.evil.example"]
      [] OTHER -> [throws |-> TRUE, protocol |-> "", hostname |-> ""]

----------------------------------------------------------------------------
(* Validation (src/lib/validation.ts) *)

\* ValidationRules.api.maxResults
maxResults == 1500

\* validateUrl() checking the scheme only
validateUrlAnyHost(url) ==
    LET parsed == ParseUrl(url) IN
    IF parsed.throws THEN FALSE
    ELSE parsed.protocol = "https:"

validateUrl(url) ==
    LET parsed == ParseUrl(url) IN
    IF parsed.throws THEN FALSE
    ELSE parsed.protocol = "https:" /\ parsed.hostname = "api.octopus.energy"

----------------------------------------------------------------------------
(* Strings given to the validation helpers are sequences of characters, so *)
(* that String(), trim() and parseInt() do what they do in JavaScript.      *)

Digits == <<"0", "1", "2", "3", "4", "5", "6", "7", "8", "9">>

IsDigit(ch) == \E i \in DOMAIN Digits : Digits[i] = ch

DigitValue(ch) == (CHOOSE i \in DOMAIN Digits : Digits[i] = ch) - 1

\* white space as trim() and parseInt() see it
IsSpace(ch) == ch = " "

RECURSIVE NatToString(_)
NatToString(n) ==
    IF n < 10 THEN <<Digits[n + 1]>>
    ELSE NatToString(n \div 10) \o <<Digits[(n % 10) + 1]>>

\* String(n) for an integer n
String(n) == IF n < 0 THEN <<"-">> \o NatToString(-n) ELSE NatToString(n)

RECURSIVE TrimStart(_)
TrimStart(str) ==
    IF str # <<>> /\ IsSpace(Head(str)) THEN TrimStart(Tail(str)) ELSE str

RECURSIVE TrimEnd(_)
TrimEnd(str) ==
    IF str # <<>> /\ IsSpace(str[Len(str)])
    THEN TrimEnd(SubSeq(str, 1, Len(str) - 1))
    ELSE str

\* value.trim()
Trim(str) == TrimEnd(TrimStart(str))

\* the longest prefix of str made of digits
RECURSIVE DigitPrefix(_)
DigitPrefix(str) ==
    IF str # <<>> /\ IsDigit(Head(str))
    THEN <<Head(str)>> \o DigitPrefix(Tail(str))
    ELSE <<>>

RECURSIVE DigitsValue(_)
DigitsValue(ds) ==
    IF ds = <<>> THEN 0
    ELSE DigitsValue(SubSeq(ds, 1, Len(ds) - 1)) * 10 + DigitValue(ds[Len(ds)])

\* parseInt(str, 10): leading white space is skipped, then an optional sign,
\* then the digits up to the first character that is not one; NaN without digits
parseInt(str) ==
    LET s1 == TrimStart(str)
        signed == s1 # <<>> /\ Head(s1) \in {"-", "+"}
        s2 == IF signed THEN Tail(s1) ELSE s1
        ds == DigitPrefix(s2)
    IN  IF ds = <<>> THEN [nan |-> TRUE, n |-> 0]
        ELSE [nan |-> FALSE,
              n |-> IF signed /\ Head(s1) = "-" THEN -DigitsValue(ds) ELSE DigitsValue(ds)]

\* a value of type `string | undefined`
Undefined == [undefined |-> TRUE, s |-> <<>>]

Str(str) == [undefined |-> FALSE, s |-> str]

\* what a helper that may throw did: returned `value`, or threw `error`
Returned(value) == [throws |-> FALSE, value |-> value, error |-> "", field |-> ""]

\* new ValidationError(message, field)
ValidationError(field) ==
    [throws |-> TRUE, value |-> 0, error |-> "ValidationError", field |-> field]

\* ValidationRules.days
daysMin == 1
daysMax == 30
daysDefault == 3

\* validateDaysParameter() clamping a value out of range
validateDaysParameterClamps(value) ==
    LET parsed == parseInt(value.s) IN
    IF value.undefined \/ value.s = <<>> \/ Trim(value.s) = <<>>
    THEN Returned(daysDefault)
    ELSE IF parsed.nan THEN ValidationError("days")
    ELSE IF parsed.n < daysMin THEN Returned(daysMin)
    ELSE IF parsed.n > daysMax THEN Returned(daysMax)
    ELSE Returned(parsed.n)

validateDaysParameter(value) ==
    LET parsed == parseInt(value.s) IN
    IF value.undefined \/ value.s = <<>> \/ Trim(value.s) = <<>>
    THEN Returned(daysDefault)
    ELSE IF parsed.nan THEN ValidationError("days")
    ELSE IF parsed.n < daysMin \/ parsed.n > daysMax THEN ValidationError("days")
    ELSE Returned(parsed.n)

\* params.days: absent, one string, or an array of strings
ParamAbsent == [isArray |-> FALSE, value |-> Undefined, items |-> <<>>]

ParamString(str) == [isArray |-> FALSE, value |-> Str(str), items |-> <<>>]

ParamArray(items) == [isArray |-> TRUE, value |-> Undefined, items |-> items]

\* sanitizeSearchParams() without its catch
sanitizeSearchParamsRethrows(days) ==
    validateDaysParameter(IF days.isArray
                          THEN IF days.items = <<>> THEN Undefined ELSE Str(days.items[1])
                          ELSE days.value)

sanitizeSearchParams(days) ==
    LET daysParam == IF days.isArray
                     THEN IF days.items = <<>> THEN Undefined ELSE Str(days.items[1])
                     ELSE days.value
        validated == validateDaysParameter(daysParam)
    IN  IF validated.throws
        THEN IF validated.error = "ValidationError"
             THEN Returned(daysDefault)
             ELSE validated
        ELSE Returned(validated.value)

\* an element of `results`: isObject is `typeof data === 'object' && data !== null`
EnergyRate(exc, inc, from, to) ==
    [isObject |-> TRUE, value_exc_vat |-> exc, value_inc_vat |-> inc,
     valid_from |-> from, valid_to |-> to]

\* validateEnergyRate() with the upper bound exclusive
validateEnergyRateExclusive(data) ==
    IF ~data.isObject THEN FALSE
    ELSE /\ data.value_exc_vat.t = "number"
         /\ data.value_inc_vat.t = "number"
         /\ data.valid_from.t = "string"
         /\ data.valid_to.t = "string"
         /\ ~DateParse(data.valid_from.s).nan
         /\ ~DateParse(data.valid_to.s).nan
         /\ data.value_inc_vat.n >= -100
         /\ data.value_inc_vat.n < 1000

validateEnergyRate(data) ==
    IF ~data.isObject THEN FALSE
    ELSE /\ data.value_exc_vat.t = "number"
         /\ data.value_inc_vat.t = "number"
         /\ data.valid_from.t = "string"
         /\ data.valid_to.t = "string"
         /\ ~DateParse(data.valid_from.s).nan
         /\ ~DateParse(data.valid_to.s).nan
         /\ data.value_inc_vat.n >= -100
         /\ data.value_inc_vat.n <= 1000

\* An array of rates is held as a sequence of runs: [rate, reps] stands for reps
\* consecutive elements equal to rate.
Run(rate, reps) == [rate |-> rate, reps |-> reps]

RECURSIVE ArrLen(_)
ArrLen(arr) == IF arr = <<>> THEN 0 ELSE arr[1].reps + ArrLen(Tail(arr))

\* validateApiResponse with `some` for `every`
validateApiResponseSome(data) ==
    IF ~data.isObject THEN FALSE
    ELSE /\ data.count.t = "number"
         /\ data.next.t \in {"null", "string"}
         /\ data.previous.t \in {"null", "string"}
         /\ data.resultsIsArray
         /\ \E i \in DOMAIN data.results : validateEnergyRate(data.results[i].rate)

validateApiResponse(data) ==
    IF ~data.isObject THEN FALSE
    ELSE /\ data.count.t = "number"
         /\ data.next.t \in {"null", "string"}
         /\ data.previous.t \in {"null", "string"}
         /\ data.resultsIsArray
         /\ \A i \in DOMAIN data.results : validateEnergyRate(data.results[i].rate)

----------------------------------------------------------------------------
(* What the upstream may send *)

PastRate ==
    EnergyRate(JNum(10), JNum(11), JStr("2025-01-01T10:00:00Z"), JStr("2025-01-01T10:30:00Z"))
CurrentRate ==
    EnergyRate(JNum(20), JNum(21), JStr("2025-01-01T10:30:00Z"), JStr("2025-01-01T11:30:00Z"))
NegativeRate ==
    EnergyRate(JNum(-5), JNum(-50), JStr("2025-01-01T11:30:00Z"), JStr("2025-01-01T12:00:00Z"))
TooHighRate ==
    EnergyRate(JNum(900), JNum(1001), JStr("2025-01-01T11:30:00Z"), JStr("2025-01-01T12:00:00Z"))

ApiPage(count, next, results) ==
    [isObject |-> TRUE, count |-> count, next |-> next, previous |-> JNull,
     resultsIsArray |-> TRUE, results |-> results]

GoodNext == JStr("https://api.octopus.energy/v1/next-page")

\* pages that pass validateApiResponse
ValidBodies ==
    {ApiPage(JNum(3), GoodNext, <<Run(PastRate, 1)>>),
     ApiPage(JNum(3), GoodNext, <<Run(NegativeRate, 800)>>),
     ApiPage(JNum(3), JNull, <<Run(CurrentRate, 1)>>),
     ApiPage(JNum(0), JNull, <<>>),
     ApiPage(JNum(3), JStr("https://api.octopus.energy.evil.example/v1/next-page"),
             <<Run(PastRate, 1)>>),
     ApiPage(JNum(3), JStr("http://api.octopus.energy/v1/next-page"),
             <<Run(CurrentRate, 1)>>)}

\* bodies that fail validateApiResponse
InvalidBodies ==
    {ApiPage(JNum(3), GoodNext, <<Run(PastRate, 1), Run(TooHighRate, 1)>>),
     ApiPage(JNum(3), GoodNext,
             <<Run(EnergyRate(JNum(10), JNum(11), JStr("yesterday"),
                              JStr("2025-01-01T10:30:00Z")), 1)>>),
     ApiPage(JStr("3"), JNull, <<Run(PastRate, 1)>>),
     ApiPage(JNum(3), JNum(2), <<Run(PastRate, 1)>>),
     [ApiPage(JNum(3), JNull, <<>>) EXCEPT !.resultsIsArray = FALSE],
     [ApiPage(JNum(3), JNull, <<>>) EXCEPT !.isObject = FALSE]}

\* last pages with a well-typed record whose interval ends before it starts
InvertedBodies ==
    {ApiPage(JNum(3), JNull,
             <<Run(CurrentRate, 1),
               Run(EnergyRate(JNum(30), JNum(31), JStr("2025-01-01T11:30:00Z"),
                              JStr("2025-01-01T11:00:00Z")), 1)>>)}

Bodies == ValidBodies \cup InvalidBodies \cup InvertedBodies

\* status codes the upstream answers with
Statuses == {200, 401, 403, 404, 429, 500, 503, 400, 501}

\* status codes of an upstream that is up, or briefly unavailable
PagingStatuses == {200}

----------------------------------------------------------------------------
(* EnergyService *)

\* getEnergyPricesImpl: maxRequests, "Prevent infinite pagination loops"
maxPageRequests == 10

SvcCaller == "a"

FirstPageUrl ==
    JStr("https://api.octopus.energy/v1/products/AGILE-24-10-01/electricity-tariffs/E-1R-AGILE-24-10-01-G/standard-unit-rates/?period_from=F&period_to=T")

\* FetchResult<T>: dataNull/errorNull say which of data and error is null
Envelope(dataNull, data, errorNull, error) ==
    [dataNull |-> dataNull, data |-> data, errorNull |-> errorNull,
     error |-> error, isLoading |-> FALSE]

NoEnvelope == [dataNull |-> TRUE, data |-> <<>>, errorNull |-> TRUE,
               error |-> "", isLoading |-> TRUE]

\* A call of getEnergyPricesImpl (kind "prices") or of getCurrentPrice (kind
\* "current"): pc is where it stands; days is its argument; validatedDays,
\* periodFrom, periodTo (as day numbers: the first millisecond of the one, the
\* last of the other), allResults, nextUrl and requestCount are its locals.
\* pagesRequested counts its calls of fetchWithSecurity, invalidPage says
\* whether a page it fetched failed validation, envelope is what it returned.
IdleSvc ==
    [pc |-> "idle", kind |-> "prices", days |-> 1, validatedDays |-> 0,
     periodFrom |-> 0, periodTo |-> 0, allResults |-> <<>>, nextUrl |-> JNull,
     requestCount |-> 0, pagesRequested |-> 0, invalidPage |-> FALSE,
     envelope |-> NoEnvelope]

\* the error the work unit of fetchWithSecurity throws for a response that is not ok
FetchError(status) ==
    CASE status = 429 -> RateLimitError("API rate limit exceeded", -1)
      [] status = 401 -> GenericError("API authentication failed")
      [] status = 403 -> GenericError("API access forbidden")
      [] status = 404 -> GenericError("API endpoint not found")
      [] status \in {500, 502, 503, 504} -> GenericError("API server error")
      [] OTHER -> GenericError("API request failed")

\* the catch block of getEnergyPricesImpl
ErrorEnvelope(error) ==
    LET errorMessage ==
            IF error.name = "RateLimitError" THEN "Rate limit exceeded: " \o error.msg
            ELSE IF error.name = "TimeoutError" THEN "Request timeout: " \o error.msg
            ELSE error.msg
    IN  Envelope(TRUE, <<>>, FALSE, errorMessage)

\* the return statement after the pagination loop
DataEnvelope(allResults) == Envelope(FALSE, allResults, TRUE, "")

\* the loop condition without the request ceiling
LoopConditionNoCeiling(sv) ==
    /\ Truthy(sv.nextUrl)
    /\ ArrLen(sv.allResults) < maxResults

\* the condition of the pagination loop
LoopCondition(sv) ==
    /\ Truthy(sv.nextUrl)
    /\ ArrLen(sv.allResults) < maxResults
    /\ sv.requestCount < maxPageRequests

\* the loop body without the check of the next URL
LoopBreaksNoUrlCheck(sv) ==
    ArrLen(sv.allResults) > maxResults

\* the two `break`s at the end of the loop body
LoopBreaks(sv) ==
    \/ Truthy(sv.nextUrl) /\ ~validateUrl(sv.nextUrl.s)
    \/ ArrLen(sv.allResults) > maxResults

\* getEnergyPricesImpl returned `envelope`; getCurrentPrice goes on from it
Resolve(sv, envelope) ==
    [sv EXCEPT !.pc = IF sv.kind = "current" THEN "pricesResolved" ELSE "resolved",
               !.envelope = envelope]

\* The top of the loop with the locals as in sv: either the next page is
\* fetched -- fetchWithSecurity checks the URL and hands the fetch to
\* octopusApiRateLimiter.execute -- or the function returns.
ContinueLoop(sv) ==
    IF LoopCondition(sv)
    THEN IF ~validateUrl(sv.nextUrl.s)
         THEN /\ svc' = Resolve(sv, ErrorEnvelope(GenericError("Invalid URL for security policy")))
              /\ UNCHANGED <<requests, lastRequest, callers>>
         ELSE /\ svc' = [sv EXCEPT !.pc = "fetching", !.pagesRequested = @ + 1]
              /\ BeginAttempt(SvcCaller, IdleCaller)
    ELSE /\ svc' = Resolve(sv, DataEnvelope(sv.allResults))
         /\ UNCHANGED <<requests, lastRequest, callers>>

DayMs == 24 * 60 * 60 * 1000

\* the day a time falls on, counted from the epoch: setHours(0, 0, 0, 0) and
\* setHours(23, 59, 59, 999) give its first and its last millisecond (the
\* server's time zone being UTC)
DayNumber(t) == t \div DayMs

Max2(a, b) == IF a >= b THEN a ELSE b

\* the day count used as it is given
validatedDaysUnclamped(days) == days

\* `Math.max(1, Math.min(ValidationRules.days.max, days))`
validatedDays(days) == Max2(1, Min2(daysMax, days))

\* getEnergyPricesImpl(days) up to its first await, or to its return
getEnergyPricesImpl(kind, days) ==
    LET sv == [IdleSvc EXCEPT
                  !.kind = kind,
                  !.days = days,
                  !.validatedDays = validatedDays(days),
                  !.periodFrom = DayNumber(now) - validatedDays(days),
                  !.periodTo = DayNumber(now + DayMs)]
    IN  IF ~validateUrl(FirstPageUrl.s)
        THEN /\ svc' = Resolve(sv, ErrorEnvelope(GenericError("Invalid API URL detected")))
             /\ UNCHANGED <<requests, lastRequest, callers>>
        ELSE ContinueLoop([sv EXCEPT !.nextUrl = FirstPageUrl])

\* getEnergyPrices() or getCurrentPrice() is called, the first call of its cycle
CallService(kind) ==
    /\ svc.pc = "idle"
    /\ callers[SvcCaller].pc = "idle"
    /\ getEnergyPricesImpl(kind, 1)
    /\ UNCHANGED <<cycle, pure, now, options, abandoned, stats>>

\* fetch() resolves with a response of the given status while execute() awaits it
FetchResponds(status) ==
    /\ svc.pc = "fetching"
    /\ callers[SvcCaller].pc = "running"
    /\ IF status >= 200 /\ status <= 299
       THEN callers' = [callers EXCEPT ![SvcCaller].pc = "done"]
       ELSE \E jitter \in Jitters(backoffDelay(callers[SvcCaller].attempt)) :
               callers' = [callers EXCEPT ![SvcCaller] =
                             Catch(callers[SvcCaller],
                                   ThrownIn(FetchError(status), callers[SvcCaller].attempt),
                                   jitter)]
    /\ UNCHANGED <<cycle, pure, now, options, requests, lastRequest, abandoned, svc, stats>>

\* fetch() rejects (network failure) while execute() awaits it
FetchFails ==
    /\ svc.pc = "fetching"
    /\ callers[SvcCaller].pc = "running"
    /\ \E jitter \in Jitters(backoffDelay(callers[SvcCaller].attempt)) :
          callers' = [callers EXCEPT ![SvcCaller] =
                        Catch(callers[SvcCaller],
                              ThrownIn(GenericError("fetch failed"), callers[SvcCaller].attempt),
                              jitter)]
    /\ UNCHANGED <<cycle, pure, now, options, requests, lastRequest, abandoned, svc, stats>>

\* `await this.fetchWithSecurity(nextUrl)` returns the response; response.json() starts
FetchReturns ==
    /\ svc.pc = "fetching"
    /\ callers[SvcCaller].pc = "done"
    /\ svc' = [svc EXCEPT !.pc = "parsing"]
    /\ callers' = [callers EXCEPT ![SvcCaller] = IdleCaller]
    /\ UNCHANGED <<cycle, pure, now, options, requests, lastRequest, abandoned, stats>>

\* `await this.fetchWithSecurity(nextUrl)` throws what execute() rejected with
FetchThrows ==
    /\ svc.pc = "fetching"
    /\ callers[SvcCaller].pc = "failed"
    /\ svc' = Resolve(svc, ErrorEnvelope(callers[SvcCaller].lastError))
    /\ callers' = [callers EXCEPT ![SvcCaller] = IdleCaller]
    /\ UNCHANGED <<cycle, pure, now, options, requests, lastRequest, abandoned, stats>>

\* response.json() rejects: the body is not JSON
JsonThrows ==
    /\ svc.pc = "parsing"
    /\ svc' = Resolve(svc, ErrorEnvelope(GenericError("Unexpected token")))
    /\ UNCHANGED <<cycle, pure, now, options, requests, lastRequest, callers, abandoned, stats>>

\* response.json() resolves with `data`: the rest of the loop body, then the loop again
JsonReturns(data) ==
    /\ svc.pc = "parsing"
    /\ IF ~validateApiResponse(data)
       THEN /\ svc' = Resolve([svc EXCEPT !.invalidPage = @ \/ data \in InvalidBodies],
                              ErrorEnvelope(GenericError("Invalid API response format received")))
            /\ UNCHANGED <<requests, lastRequest, callers>>
       ELSE LET sv == [svc EXCEPT !.allResults = @ \o data.results,
                                  !.nextUrl = data.next,
                                  !.requestCount = @ + 1,
                                  !.invalidPage = @ \/ data \in InvalidBodies]
            IN  IF LoopBreaks(sv)
                THEN /\ svc' = Resolve(sv, DataEnvelope(sv.allResults))
                     /\ UNCHANGED <<requests, lastRequest, callers>>
                ELSE ContinueLoop(sv)
    /\ UNCHANGED <<cycle, pure, now, options, abandoned, stats>>

\* the first element of arr that contains t in [valid_from, valid_to), as an
\* array of at most one element
RECURSIVE FindCurrent(_, _)
FindCurrent(arr, t) ==
    IF arr = <<>> THEN <<>>
    ELSE IF /\ arr[1].reps > 0
            /\ t >= DateParse(arr[1].rate.valid_from.s).ms
            /\ t < DateParse(arr[1].rate.valid_to.s).ms
         THEN <<Run(arr[1].rate, 1)>>
         ELSE FindCurrent(Tail(arr), t)

\* getCurrentPrice() reporting no error when no price is current
getCurrentPriceNoError(result, t) ==
    LET currentPrice == FindCurrent(result.data, t) IN
    IF (~result.errorNull /\ result.error # "") \/ result.dataNull
    THEN Envelope(TRUE, <<>>, result.errorNull, result.error)
    ELSE IF currentPrice # <<>>
    THEN Envelope(FALSE, currentPrice, TRUE, "")
    ELSE Envelope(TRUE, <<>>, TRUE, "")

\* getCurrentPrice() from `result`, what `await this.getEnergyPrices(1)` gave, at time t
getCurrentPrice(result, t) ==
    LET currentPrice == FindCurrent(result.data, t) IN
    IF (~result.errorNull /\ result.error # "") \/ result.dataNull
    THEN Envelope(TRUE, <<>>, result.errorNull, result.error)
    ELSE IF currentPrice # <<>>
    THEN Envelope(FALSE, currentPrice, TRUE, "")
    ELSE Envelope(TRUE, <<>>, FALSE, "No current price found")

\* `await this.getEnergyPrices(1)` returns in getCurrentPrice()
CurrentPriceReturns ==
    /\ svc.pc = "pricesResolved"
    /\ svc' = [svc EXCEPT !.pc = "resolved",
                          !.envelope = getCurrentPrice(svc.envelope, now)]
    /\ UNCHANGED <<cycle, pure, now, options, requests, lastRequest, callers, abandoned, stats>>

----------------------------------------------------------------------------
(* The request cycle.  getEnergyPrices is cache(async (d = 1) => ...):     *)
(* React's cache() keeps, for the request being rendered, one entry per    *)
(* argument -- the promise the first call with that argument returned --   *)
(* and gives that promise to every later call with that argument.  The     *)
(* next request starts without entries.                                    *)

\* the days arguments tried, the request cycles after the first, and the calls
\* awaiting one entry at once
DaysArgs == {-2, 0, 1, 30, 31}
MaxCycles == 1
MaxAwaiting == 2
StepCycle == 2000
MaxElapsedCycle == 4000

\* an entry of cache(): startedIn is the cycle whose call created it
NoEntry == [state |-> "none", value |-> NoEnvelope, startedIn |-> 0]

\* id numbers the cycle; runs counts the calls of getEnergyPricesImpl per
\* argument in this cycle, awaiting the callers awaiting getEnergyPrices(d),
\* delivered what those awaits returned; current is where a getCurrentPrice()
\* call stands and currentEnvelope what it returned
IdleCycle ==
    [id |-> 0,
     cache |-> [d \in DaysArgs |-> NoEntry],
     runs |-> [d \in DaysArgs |-> 0],
     awaiting |-> [d \in DaysArgs |-> 0],
     delivered |-> [d \in DaysArgs |-> {}],
     current |-> "idle",
     currentEnvelope |-> NoEnvelope]

\* a call of the cached function with argument d, cy being the cycle with the
\* caller's own bookkeeping done: without an entry the wrapped function runs
ViaCache(cy, d) ==
    IF cy.cache[d].state = "none"
    THEN /\ svc.pc = "idle"
         /\ callers[SvcCaller].pc = "idle"
         /\ getEnergyPricesImpl("prices", d)
         /\ cycle' = [cy EXCEPT !.cache[d] = [state |-> "pending", value |-> NoEnvelope,
                                              startedIn |-> cy.id],
                                !.runs[d] = @ + 1]
    ELSE /\ cycle' = cy
         /\ UNCHANGED <<svc, requests, lastRequest, callers>>

\* EnergyService.getEnergyPrices(d) is called
GetEnergyPrices(d) ==
    /\ cycle.awaiting[d] < MaxAwaiting
    /\ ViaCache([cycle EXCEPT !.awaiting[d] = @ + 1], d)
    /\ UNCHANGED <<pure, now, options, abandoned, stats>>

\* getCurrentPrice() calling getEnergyPricesImpl itself, not the cached function
GetCurrentPriceUncached ==
    /\ cycle.current = "idle"
    /\ svc.pc = "idle"
    /\ callers[SvcCaller].pc = "idle"
    /\ getEnergyPricesImpl("prices", 1)
    /\ cycle' = [cycle EXCEPT !.current = "awaiting", !.runs[1] = @ + 1]
    /\ UNCHANGED <<pure, now, options, abandoned, stats>>

\* EnergyService.getCurrentPrice() is called: `await this.getEnergyPrices(1)`
GetCurrentPrice ==
    /\ cycle.current = "idle"
    /\ ViaCache([cycle EXCEPT !.current = "awaiting"], 1)
    /\ UNCHANGED <<pure, now, options, abandoned, stats>>

\* the promise of the cached function settles with what getEnergyPricesImpl returned
ImplReturns ==
    /\ svc.pc = "resolved"
    /\ cycle' = [cycle EXCEPT !.cache[svc.days].state = "settled",
                              !.cache[svc.days].value = svc.envelope]
    /\ svc' = IdleSvc
    /\ UNCHANGED <<pure, now, options, requests, lastRequest, callers, abandoned, stats>>

\* `await getEnergyPrices(d)` returns in one of its callers
PricesDelivered(d) ==
    /\ cycle.awaiting[d] > 0
    /\ cycle.cache[d].state = "settled"
    /\ cycle' = [cycle EXCEPT !.awaiting[d] = @ - 1,
                              !.delivered[d] = @ \cup {cycle.cache[d].value}]
    /\ UNCHANGED <<pure, now, options, requests, lastRequest, callers, abandoned, svc, stats>>

\* `await this.getEnergyPrices(1)` returns in getCurrentPrice(), which returns
CurrentPriceDelivered ==
    /\ cycle.current = "awaiting"
    /\ cycle.cache[1].state = "settled"
    /\ cycle' = [cycle EXCEPT !.current = "returned",
                              !.currentEnvelope = getCurrentPrice(cycle.cache[1].value, now),
                              !.delivered[1] = @ \cup {cycle.cache[1].value}]
    /\ UNCHANGED <<pure, now, options, requests, lastRequest, callers, abandoned, svc, stats>>

\* the render is over and the next request is rendered
NewCycle ==
    /\ cycle.id < MaxCycles
    /\ svc.pc = "idle"
    /\ cycle.current # "awaiting"
    /\ \A d \in DaysArgs : cycle.awaiting[d] = 0
    /\ cycle' = [IdleCycle EXCEPT !.id = cycle.id + 1]
    /\ UNCHANGED <<pure, now, options, requests, lastRequest, callers, abandoned, svc, stats>>

TickCycle ==
    /\ now + StepCycle <= StartTime + MaxElapsedCycle
    /\ now' = now + StepCycle
    /\ UNCHANGED <<cycle, pure, options, requests, lastRequest, callers, abandoned, svc, stats>>

\* what the upstream answers during the cycles
CycleStatuses == {200}

CycleBodies ==
    {ApiPage(JNum(3), JNull, <<Run(CurrentRate, 1)>>),
     ApiPage(JNum(3), JNull, <<Run(PastRate, 1)>>)}

----------------------------------------------------------------------------
(* Price analytics (price-utils part of src/lib/price-utils.ts).  A series *)
(* is a sequence of EnergyRate; null is the empty sequence and a price the *)
(* sequence of that one element.                                           *)

Null == <<>>

validFromMs(price) == DateParse(price.valid_from.s).ms

validToMs(price) == DateParse(price.valid_to.s).ms

\* `now >= validFrom && now < validTo`
ContainsNow(price, t) == t >= validFromMs(price) /\ t < validToMs(price)

\* where Array.prototype.sort, which is stable, puts `price` in `sorted`: after
\* every element whose valid_from is not later
RECURSIVE InsertByValidFrom(_, _)
InsertByValidFrom(sorted, price) ==
    IF sorted = <<>> THEN <<price>>
    ELSE IF validFromMs(price) < validFromMs(Head(sorted))
    THEN <<price>> \o sorted
    ELSE <<Head(sorted)>> \o InsertByValidFrom(Tail(sorted), price)

\* prices.sort((a, b) => new Date(a.valid_from).getTime() - new Date(b.valid_from).getTime())
RECURSIVE SortByValidFrom(_)
SortByValidFrom(prices) ==
    IF prices = <<>> THEN <<>>
    ELSE InsertByValidFrom(SortByValidFrom(SubSeq(prices, 1, Len(prices) - 1)),
                           prices[Len(prices)])

\* getCurrentAndNextPrices() taking as next the element after current in the
\* order given
getCurrentAndNextPricesUnsorted(prices, t) ==
    LET hits == {i \in DOMAIN prices : ContainsNow(prices[i], t)}
        i0 == CHOOSE i \in hits : \A j \in hits : i <= j
    IN  IF hits = {}
        THEN [currentPrice |-> Null, nextPrice |-> Null, prices |-> prices]
        ELSE [currentPrice |-> <<prices[i0]>>,
              nextPrice |-> IF i0 + 1 \in DOMAIN prices
                            THEN <<prices[i0 + 1]>>
                            ELSE Null,
              prices |-> prices]

\* getCurrentAndNextPrices(prices) called at time t: what it returns, and
\* `prices` as the call leaves the array (sort() sorts it in place)
getCurrentAndNextPrices(prices, t) ==
    LET sortedPrices == SortByValidFrom(prices)
        hits == {i \in DOMAIN sortedPrices : ContainsNow(sortedPrices[i], t)}
        i0 == CHOOSE i \in hits : \A j \in hits : i <= j
    IN  IF hits = {}
        THEN [currentPrice |-> Null, nextPrice |-> Null, prices |-> sortedPrices]
        ELSE [currentPrice |-> <<sortedPrices[i0]>>,
              nextPrice |-> IF i0 + 1 \in DOMAIN sortedPrices
                            THEN <<sortedPrices[i0 + 1]>>
                            ELSE Null,
              prices |-> sortedPrices]

\* values.reduce((sum, val) => sum + val, 0)
RECURSIVE SumOf(_)
SumOf(values) == IF values = <<>> THEN 0 ELSE Head(values) + SumOf(Tail(values))

\* Math.max(...values)
RECURSIVE SeqMax(_)
SeqMax(values) ==
    IF Len(values) = 1 THEN values[1] ELSE Max2(values[1], SeqMax(Tail(values)))

\* The quotient num / den, kept as the fraction: JavaScript rounds it to the
\* nearest double.
Quotient(num, den) == [num |-> num, den |-> den]

\* calculateStats() with the sums of 1..n, not of 0..n-1, for the positions
calculateStatsOneBased(prices) ==
    IF Len(prices) = 0
    THEN [min |-> 0, max |-> 0, avg |-> Quotient(0, 1), trend |-> Quotient(0, 1),
          count |-> 0, prices |-> prices]
    ELSE LET values == [i \in DOMAIN prices |-> prices[i].value_inc_vat.n]
             n == Len(prices)
             sumX == (n * (n + 1)) \div 2
             sumY == SumOf(values)
             sumXY == SumOf([i \in DOMAIN values |-> values[i] * (i - 1)])
             sumX2 == (n * (n + 1) * (2 * n + 1)) \div 6
         IN  [min |-> SeqMin(values), max |-> SeqMax(values),
              avg |-> Quotient(SumOf(values), Len(values)),
              trend |-> IF Len(prices) >= 2
                        THEN Quotient(n * sumXY - sumX * sumY, n * sumX2 - sumX * sumX)
                        ELSE Quotient(0, 1),
              count |-> Len(prices), prices |-> prices]

\* calculateStats(prices): what it returns, and `prices` as the call leaves it
calculateStats(prices) ==
    IF Len(prices) = 0
    THEN [min |-> 0, max |-> 0, avg |-> Quotient(0, 1), trend |-> Quotient(0, 1),
          count |-> 0, prices |-> prices]
    ELSE LET values == [i \in DOMAIN prices |-> prices[i].value_inc_vat.n]
             n == Len(prices)
             sumX == (n * (n - 1)) \div 2
             sumY == SumOf(values)
             sumXY == SumOf([i \in DOMAIN values |-> values[i] * (i - 1)])
             sumX2 == (n * (n - 1) * (2 * n - 1)) \div 6
         IN  [min |-> SeqMin(values), max |-> SeqMax(values),
              avg |-> Quotient(SumOf(values), Len(values)),
              trend |-> IF Len(prices) >= 2
                        THEN Quotient(n * sumXY - sumX * sumY, n * sumX2 - sumX * sumX)
                        ELSE Quotient(0, 1),
              count |-> Len(prices), prices |-> prices]

\* upcomingPrices.reduce(...): the first of the cheapest elements
RECURSIVE Cheapest(_, _)
Cheapest(cheapest, rest) ==
    IF rest = <<>> THEN cheapest
    ELSE Cheapest(IF Head(rest).value_inc_vat.n < cheapest.value_inc_vat.n
                  THEN Head(rest) ELSE cheapest,
                  Tail(rest))

\* getCheapestPrice24h(prices) called at time t
getCheapestPrice24h(prices, t) ==
    LET upcomingPrices ==
            SelectSeq(prices, LAMBDA price :
                         validFromMs(price) >= t /\ validFromMs(price) <= t + DayMs)
    IN  [cheapest |-> IF Len(upcomingPrices) = 0 THEN Null
                      ELSE <<Cheapest(Head(upcomingPrices), Tail(upcomingPrices))>>,
         prices |-> prices]

\* date.toISOString().split('T')[0], as the number of the UTC day
dateKey(price) == DayNumber(validFromMs(price))

\* groupPricesByDay(prices): per date key, the prices of that day in the
\* order of the series
groupPricesByDay(prices) ==
    [groups |-> [key \in {dateKey(prices[i]) : i \in DOMAIN prices} |->
                    SelectSeq(prices, LAMBDA price : dateKey(price) = key)],
     prices |-> prices]

----------------------------------------------------------------------------
(* Calls of the pure helpers: `pure` holds the helper called, the argument *)
(* and what the call returned, until the caller has taken the result.      *)

\* the largest series, the longest query string and the largest |days| tried
MaxSeries == 3
MaxStrLen == 3
MaxDaysArg == 45

SeqsUpTo(S, n) == UNION {[1..k -> S] : k \in 0..n}

HalfHourRate ==
    EnergyRate(JNum(30), JNum(31), JStr("2025-01-01T11:00:00Z"), JStr("2025-01-01T11:30:00Z"))
LongRate ==
    EnergyRate(JNum(40), JNum(41), JStr("2025-01-01T10:00:00Z"), JStr("2025-01-01T12:00:00Z"))
LateRate ==
    EnergyRate(JNum(50), JNum(51), JStr("2025-01-01T11:30:00Z"), JStr("2025-01-01T12:00:00Z"))

\* the price points the series are made of: consecutive, overlapping and
\* equal-start intervals
SeriesRates == {PastRate, CurrentRate, NegativeRate, HalfHourRate, LongRate, LateRate}

Series == SeqsUpTo(SeriesRates, MaxSeries)

\* the times at which the analytics run: before, within and after the series
PureTimes ==
    {StartTime - 4000000, StartTime - 2400000, StartTime, StartTime + 900000,
     StartTime + 4000000}

DaysAlphabet == {"0", "1", "3", "5", "9", "-", "+", " ", "a", "."}

DaysStrings ==
    SeqsUpTo(DaysAlphabet, MaxStrLen) \cup {String(d) : d \in -MaxDaysArg..MaxDaysArg}

DaysValues == {Undefined} \cup {Str(str) : str \in DaysStrings}

DaysParams ==
    {ParamAbsent, ParamArray(<<>>)}
        \cup {ParamString(str) : str \in DaysStrings}
        \cup {ParamArray(<<str>>) : str \in DaysStrings}
        \cup {ParamArray(<<str, <<"7">> >>) : str \in DaysStrings}

NoCall == [fn |-> "", input |-> <<>>, output |-> <<>>]

Called(fn, input, output) == [fn |-> fn, input |-> input, output |-> output]

CallGetCurrentAndNextPrices ==
    /\ pure = NoCall
    /\ \E prices \in Series :
          pure' = Called("getCurrentAndNextPrices", prices,
                         getCurrentAndNextPrices(prices, now))
    /\ UNCHANGED <<now, options, requests, lastRequest, callers, abandoned, svc, cycle, stats>>

CallValidateDaysParameter ==
    /\ pure = NoCall
    /\ \E value \in DaysValues :
          pure' = Called("validateDaysParameter", value, validateDaysParameter(value))
    /\ UNCHANGED <<now, options, requests, lastRequest, callers, abandoned, svc, cycle, stats>>

CallSanitizeSearchParams ==
    /\ pure = NoCall
    /\ \E days \in DaysParams :
          pure' = Called("sanitizeSearchParams", days, sanitizeSearchParams(days))
    /\ UNCHANGED <<now, options, requests, lastRequest, callers, abandoned, svc, cycle, stats>>

\* the longest `results` of the pages given to validateApiResponse
MaxPageLen == 2

\* the latest start of an execute call under SpecTimely, after StartTime
MaxStartTimely == 2000

\* price points that pass validateEnergyRate: plain ones and the two ends of
\* the range of value_inc_vat
GoodRates ==
    {PastRate, NegativeRate,
     [PastRate EXCEPT !.value_inc_vat = JNum(-100)],
     [PastRate EXCEPT !.value_inc_vat = JNum(1000)]}

\* PastRate with one field changed so that validateEnergyRate fails
BadRates ==
    {[PastRate EXCEPT !.value_inc_vat = JNum(1001)],
     [PastRate EXCEPT !.value_inc_vat = JNum(-101)],
     [PastRate EXCEPT !.value_inc_vat = JStr("11")],
     [PastRate EXCEPT !.value_exc_vat = JStr("10")],
     [PastRate EXCEPT !.value_exc_vat = JNull],
     [PastRate EXCEPT !.valid_from = JStr("yesterday")],
     [PastRate EXCEPT !.valid_from = JNum(1735725600)],
     [PastRate EXCEPT !.valid_to = JStr("soon")],
     [PastRate EXCEPT !.valid_to = JNull],
     [PastRate EXCEPT !.isObject = FALSE]}

PageResults ==
    {[i \in DOMAIN rates |-> Run(rates[i], 1)] :
        rates \in SeqsUpTo(GoodRates \cup BadRates, MaxPageLen)}

\* what response.json() may hand to validateApiResponse
PageInputs ==
    {[ApiPage(count, next, results) EXCEPT !.previous = previous] :
        count \in {JNum(3), JStr("3")},
        next \in {JNull, GoodNext, JNum(2)},
        previous \in {JNull, JStr("https://api.octopus.energy/v1/previous-page"), JNum(1)},
        results \in PageResults}
      \cup {[ApiPage(JNum(0), JNull, <<>>) EXCEPT !.resultsIsArray = FALSE],
            [ApiPage(JNum(0), JNull, <<>>) EXCEPT !.isObject = FALSE]}

CallValidateApiResponse ==
    /\ pure = NoCall
    /\ \E data \in PageInputs :
          pure' = Called("validateApiResponse", data, validateApiResponse(data))
    /\ UNCHANGED <<now, options, requests, lastRequest, callers, abandoned, svc, cycle, stats>>

\* the series calculateStats is given: those of Series and those with the
\* values 10 and 20
StatsSeries ==
    SeqsUpTo(SeriesRates \cup
               {EnergyRate(JNum(9), JNum(10),
                           JStr("2025-01-01T10:00:00Z"), JStr("2025-01-01T10:30:00Z")),
                EnergyRate(JNum(19), JNum(20),
                           JStr("2025-01-01T10:30:00Z"), JStr("2025-01-01T11:00:00Z"))},
             MaxSeries)

CallCalculateStats ==
    /\ pure = NoCall
    /\ \E prices \in StatsSeries :
          pure' = Called("calculateStats", prices, calculateStats(prices))
    /\ UNCHANGED <<now, options, requests, lastRequest, callers, abandoned, svc, cycle, stats>>

CallGetCheapestPrice24h ==
    /\ pure = NoCall
    /\ \E prices \in Series :
          pure' = Called("getCheapestPrice24h", prices, getCheapestPrice24h(prices, now))
    /\ UNCHANGED <<now, options, requests, lastRequest, callers, abandoned, svc, cycle, stats>>

CallGroupPricesByDay ==
    /\ pure = NoCall
    /\ \E prices \in Series :
          pure' = Called("groupPricesByDay", prices, groupPricesByDay(prices))
    /\ UNCHANGED <<now, options, requests, lastRequest, callers, abandoned, svc, cycle, stats>>

\* the caller has taken the result
PureReturns ==
    /\ pure # NoCall
    /\ pure' = NoCall
    /\ UNCHANGED <<now, options, requests, lastRequest, callers, abandoned, svc, cycle, stats>>

----------------------------------------------------------------------------

Init ==
    /\ now = StartTime
    /\ options \in LimiterConfigs
    /\ requests = <<>>
    /\ lastRequest = 0
    /\ callers = [c \in Callers |-> IdleCaller]
    /\ abandoned = 0
    /\ svc = IdleSvc
    /\ cycle = IdleCycle
    /\ pure = NoCall
    /\ stats = NoStats

Next ==
    \/ \E c \in Callers : Execute(c)
    \/ \E c \in Callers : BudgetWaitEnds(c)
    \/ \E c \in Callers : BackoffEnds(c)
    \/ \E c \in Callers : WorkResolves(c)
    \/ \E c \in Callers : WorkRejects(c)
    \/ \E c \in Callers : TimeoutFires(c)
    \/ \E c \in Callers : Return(c)
    \/ AbandonedSettles
    \/ TickOverlap

Spec == Init /\ [][Next]_vars

NextSeq ==
    \/ \E c \in Callers : ExecuteSeq(c)
    \/ \E c \in Callers : BudgetWaitEnds(c)
    \/ \E c \in Callers : BackoffEnds(c)
    \/ \E c \in Callers : WorkResolves(c)
    \/ \E c \in Callers : WorkRejects(c)
    \/ \E c \in Callers : TimeoutFires(c)
    \/ \E c \in Callers : Return(c)
    \/ AbandonedSettles
    \/ Tick

SpecSeq == Init /\ [][NextSeq]_vars

\* execute() calls one at a time, and getStats() calls between their steps
NextStats ==
    \/ \E c \in Callers : ExecuteSeq(c)
    \/ \E c \in Callers : BudgetWaitEnds(c)
    \/ \E c \in Callers : BackoffEnds(c)
    \/ \E c \in Callers : WorkResolves(c)
    \/ \E c \in Callers : WorkRejects(c)
    \/ \E c \in Callers : TimeoutFires(c)
    \/ \E c \in Callers : Return(c)
    \/ AbandonedSettles
    \/ GetStats
    \/ StatsRead
    \/ Tick

SpecStats == Init /\ [][NextStats]_vars

InitTimely ==
    /\ now = StartTime
    /\ options \in LimiterConfigs
    /\ requests = <<>>
    /\ lastRequest = 0
    /\ callers = [c \in Callers |-> IdleCaller]
    /\ abandoned = 0
    /\ svc = IdleSvc
    /\ cycle = IdleCycle
    /\ pure = NoCall
    /\ stats = NoStats

\* execute() is called no later than MaxStartTimely after the start
ExecuteTimely(c) ==
    /\ now <= StartTime + MaxStartTimely
    /\ ExecuteSeq(c)

\* the times at which the pending setTimeout timers are due
Deadlines ==
    {callers[c].wakeAt : c \in {d \in Callers : callers[d].pc \in {"waitBudget", "backoff"}}}
      \cup {callers[c].fnStart + options.timeoutMs :
               c \in {d \in Callers : callers[d].pc = "running"}}

\* Time passes, by a step or up to the next timer that is due: the event loop
\* runs the callback of a due timer before the clock moves on.
TickTimely ==
    /\ \A deadline \in Deadlines : deadline > now
    /\ Deadlines = {} => now + Step <= StartTime + MaxStartTimely + Step
    /\ \E t \in {now + Step} \cup Deadlines :
          /\ \A deadline \in Deadlines \cup {now + Step} : t <= deadline
          /\ now' = t
    /\ UNCHANGED <<cycle, pure, options, requests, lastRequest, callers, abandoned, svc, stats>>

NextTimely ==
    \/ \E c \in Callers : ExecuteTimely(c)
    \/ \E c \in Callers : BudgetWaitEnds(c)
    \/ \E c \in Callers : BackoffEnds(c)
    \/ \E c \in Callers : WorkResolves(c)
    \/ \E c \in Callers : WorkRejects(c)
    \/ \E c \in Callers : TimeoutFires(c)
    \/ \E c \in Callers : Return(c)
    \/ AbandonedSettles
    \/ TickTimely

\* The event loop runs every timer callback that is due and the clock moves
\* on; nothing is assumed of the work unit, whose promise may never settle.
FairTimely ==
    /\ WF_vars(TickTimely)
    /\ \A c \in Callers :
          /\ WF_vars(BudgetWaitEnds(c))
          /\ WF_vars(BackoffEnds(c))
          /\ WF_vars(TimeoutFires(c))

SpecTimely == InitTimely /\ [][NextTimely]_vars /\ FairTimely

\* a limiter with enough retries for the backoff delay to reach maxDelay
DeepRetry ==
    [maxRequests |-> 3, windowMs |-> 3000, minInterval |-> 2000,
     maxRetries |-> 6, timeoutMs |-> 1000]

InitBackoff ==
    /\ now = StartTime
    /\ options = DeepRetry
    /\ requests = <<>>
    /\ lastRequest = 0
    /\ callers = [c \in Callers |-> IdleCaller]
    /\ abandoned = 0
    /\ svc = IdleSvc
    /\ cycle = IdleCycle
    /\ pure = NoCall
    /\ stats = NoStats

\* the first execute() call on a new limiter
ExecuteFirst(c) ==
    /\ requests = <<>>
    /\ lastRequest = 0
    /\ ExecuteSeq(c)

NextBackoff ==
    \/ \E c \in Callers : ExecuteFirst(c)
    \/ \E c \in Callers : BudgetWaitEnds(c)
    \/ \E c \in Callers : BackoffEnds(c)
    \/ \E c \in Callers : WorkResolves(c)
    \/ \E c \in Callers : WorkRejects(c)
    \/ \E c \in Callers : TimeoutFires(c)
    \/ \E c \in Callers : Return(c)
    \/ AbandonedSettles
    \/ TickTimely

SpecBackoff == InitBackoff /\ [][NextBackoff]_vars

\* the EnergyService on octopusApiRateLimiter
InitSvc ==
    /\ now = StartTime
    /\ options = octopusApiRateLimiter
    /\ requests = <<>>
    /\ lastRequest = 0
    /\ callers = [c \in Callers |-> IdleCaller]
    /\ abandoned = 0
    /\ svc = IdleSvc
    /\ cycle = IdleCycle
    /\ pure = NoCall
    /\ stats = NoStats

NextSvc ==
    \/ \E kind \in {"prices", "current"} : CallService(kind)
    \/ \E status \in Statuses : FetchResponds(status)
    \/ FetchFails
    \/ FetchReturns
    \/ FetchThrows
    \/ JsonThrows
    \/ \E data \in Bodies : JsonReturns(data)
    \/ CurrentPriceReturns
    \/ BudgetWaitEnds(SvcCaller)
    \/ BackoffEnds(SvcCaller)
    \/ TimeoutFires(SvcCaller)
    \/ AbandonedSettles
    \/ TickSvc

SpecSvc == InitSvc /\ [][NextSvc]_vars

NextPaging ==
    \/ \E kind \in {"prices", "current"} : CallService(kind)
    \/ \E status \in PagingStatuses : FetchResponds(status)
    \/ FetchReturns
    \/ FetchThrows
    \/ \E data \in ValidBodies : JsonReturns(data)
    \/ CurrentPriceReturns
    \/ BudgetWaitEnds(SvcCaller)
    \/ TimeoutFires(SvcCaller)
    \/ AbandonedSettles
    \/ TickPaging

SpecPaging == InitSvc /\ [][NextPaging]_vars

\* the request cycles of a page on octopusApiRateLimiter
NextCycle ==
    \/ \E d \in DaysArgs : GetEnergyPrices(d)
    \/ GetCurrentPrice
    \/ ImplReturns
    \/ \E d \in DaysArgs : PricesDelivered(d)
    \/ CurrentPriceDelivered
    \/ NewCycle
    \/ \E status \in CycleStatuses : FetchResponds(status)
    \/ FetchReturns
    \/ \E data \in CycleBodies : JsonReturns(data)
    \/ BudgetWaitEnds(SvcCaller)
    \/ TickCycle

SpecCycle == InitSvc /\ [][NextCycle]_vars

\* the pure helpers, each called with every input of the bounded sets
InitPure ==
    /\ now \in PureTimes
    /\ options = octopusApiRateLimiter
    /\ requests = <<>>
    /\ lastRequest = 0
    /\ callers = [c \in Callers |-> IdleCaller]
    /\ abandoned = 0
    /\ svc = IdleSvc
    /\ cycle = IdleCycle
    /\ pure = NoCall
    /\ stats = NoStats

NextPure ==
    \/ CallGetCurrentAndNextPrices
    \/ CallValidateDaysParameter
    \/ CallSanitizeSearchParams
    \/ CallValidateApiResponse
    \/ CallCalculateStats
    \/ CallGetCheapestPrice24h
    \/ CallGroupPricesByDay
    \/ PureReturns

SpecPure == InitPure /\ [][NextPure]_vars

----------------------------------------------------------------------------
(* Properties *)

\* requests recorded less than windowMs ago
InWindow == {i \in DOMAIN requests : now - requests[i] < options.windowMs}

\* a request is recorded in this step: every way into pc "running" records one
Recorded == \E c \in Callers : callers[c].pc # "running" /\ callers'[c].pc = "running"

\* C1: with one execute call at a time, at most maxRequests recorded requests
\* are younger than windowMs, at every moment.
C1_RequestBudgetSequential == Cardinality(InWindow) <= options.maxRequests

\* C1 witness: a call that the count check made wait has recorded its request
\* and the window is full.
C1_Witness ==
    \E c \in Callers :
        /\ callers[c].pc = "running"
        /\ callers[c].denied = "count"
        /\ Cardinality(InWindow) = options.maxRequests

\* C2: with overlapping execute calls, no window of windowMs ending at a
\* recorded request holds more than maxRequests recorded requests.
C2_RequestBudgetOverlapping ==
    \A i \in DOMAIN requests :
        Cardinality({j \in DOMAIN requests :
                        /\ requests[j] <= requests[i]
                        /\ requests[i] - requests[j] < options.windowMs})
            <= options.maxRequests

\* C3: every request is recorded at least minInterval after the one before it
\* (the value lastRequest holds when it is recorded).
C3_MinimumSpacing ==
    [][Recorded => now' - lastRequest >= options.minInterval]_vars

\* C4: a call that execute() rejects with a retryable error has invoked the
\* work unit maxRetries + 1 times with maxRetries backoff waits, and the error
\* is the one the last attempt threw; while such a call is under way it has
\* made one invocation per attempt, a backoff wait follows each failed attempt
\* but the last, and no call invokes the work unit more than maxRetries + 1 times.
C4_RetryCount ==
    \A c \in Callers :
        LET cr == callers[c] IN
        /\ cr.invocations <= options.maxRetries + 1
        /\ cr.pc = "running" => cr.invocations = cr.attempt + 1 /\ cr.backoffs = cr.attempt
        /\ cr.pc = "backoff" =>
              /\ cr.attempt < options.maxRetries
              /\ cr.invocations = cr.attempt + 1
              /\ cr.backoffs = cr.attempt + 1
        /\ (cr.pc = "failed" /\ ~NonRetryable(cr.lastError)) =>
              /\ cr.invocations = options.maxRetries + 1
              /\ cr.backoffs = options.maxRetries
              /\ cr.lastError.attempt = options.maxRetries

\* C4 witness: a call rejected with the generic error after all its retries.
C4_Witness ==
    \E c \in Callers :
        /\ callers[c].pc = "failed"
        /\ callers[c].lastError = ThrownIn(GenericError("boom"), options.maxRetries)
        /\ callers[c].invocations = options.maxRetries + 1
        /\ options.maxRetries >= 2

\* the messages of the errors fetchWithSecurity throws for 401, 403 and 404
NoRetryMessages ==
    {FetchError(401).msg, FetchError(403).msg, FetchError(404).msg}

\* C5: once the upstream has answered a page fetch with 401, 403 or 404, the
\* execute call has failed after that one invocation, without a backoff wait.
C5_NoRetryOn401_403_404 ==
    callers[SvcCaller].lastError.msg \in NoRetryMessages =>
        /\ callers[SvcCaller].pc = "failed"
        /\ callers[SvcCaller].invocations = 1
        /\ callers[SvcCaller].backoffs = 0

\* C6: a call whose timer fired has failed with TimeoutError -- it is in no
\* backoff wait and makes no further attempt -- and when a work unit left
\* behind by a timeout settles, the calls and the limiter stay as they are.
C6_TimeoutIsFinal ==
    [][/\ \A c \in Callers :
             callers'[c].timedOut =>
                /\ callers'[c].pc = "failed"
                /\ callers'[c].lastError.name = "TimeoutError"
                /\ callers[c].timedOut => callers'[c] = callers[c]
       /\ abandoned' < abandoned => UNCHANGED <<requests, lastRequest, callers>>
      ]_vars

\* C6 witness: a call timed out on a retry, and the work unit left behind settled.
C6_Witness ==
    \E c \in Callers :
        /\ callers[c].timedOut
        /\ callers[c].attempt >= 1
        /\ callers[c].pc = "failed"
        /\ abandoned = 0

\* C7: a denied call with retryAfter <= 60 waits retryAfter seconds and then
\* records its request and runs the work unit; a denied call with
\* retryAfter > 60 fails with RateLimitError carrying retryAfter, in a step
\* that records no request, without an invocation in that attempt.
C7_WaitOrFail ==
    [][\A c \in Callers :
          /\ callers'[c].pc = "waitBudget" =>
                /\ callers'[c].retryAfter >= 1
                /\ callers'[c].retryAfter <= MaxWaitSeconds
                /\ callers[c].pc # "waitBudget" =>
                      callers'[c].wakeAt = now + callers'[c].retryAfter * 1000
          /\ callers[c].pc = "waitBudget" =>
                \/ callers'[c] = callers[c]
                \/ /\ callers'[c].pc = "running"
                   /\ now >= callers[c].wakeAt
                   /\ callers'[c].invocations = callers[c].invocations + 1
          /\ (callers'[c].pc = "failed" /\ callers[c].pc # "failed"
                /\ callers'[c].lastError.name = "RateLimitError"
                /\ callers[c].pc # "running") =>
                /\ callers'[c].retryAfter > MaxWaitSeconds
                /\ callers'[c].lastError.retryAfter = callers'[c].retryAfter
                /\ callers'[c].invocations = callers'[c].attempt
                /\ ~Recorded
                /\ lastRequest' = lastRequest
                /\ Len(requests') <= Len(requests)
      ]_vars

\* C7 witness: one call has waited for the budget and is running its work unit,
\* another has failed with RateLimitError and a retryAfter above 60.
C7_Witness ==
    \E c, d \in Callers :
        /\ callers[c].pc = "running"
        /\ callers[c].denied # ""
        /\ callers[d].pc = "failed"
        /\ callers[d].lastError.name = "RateLimitError"
        /\ callers[d].lastError.retryAfter > MaxWaitSeconds

\* C8: a call of getEnergyPrices or getCurrentPrice that has ended has
\* returned an envelope with isLoading false and exactly one of data and error
\* null.
C8_ResultEnvelope ==
    svc.pc \in {"pricesResolved", "resolved"} =>
        /\ svc.envelope.isLoading = FALSE
        /\ svc.envelope.dataNull # svc.envelope.errorNull

\* C8 witness: getCurrentPrice has returned and found no current price.
C8_Witness ==
    /\ svc.pc = "resolved"
    /\ svc.kind = "current"
    /\ svc.envelope.dataNull
    /\ svc.envelope.error = "No current price found"

\* C9: at most 10 pages are requested, and a page is requested only while the
\* previous page's next is not null and no more than maxResults results have
\* been accumulated.
C9_BoundedPagination ==
    /\ svc.pagesRequested <= maxPageRequests
    /\ svc.pc \in {"fetching", "parsing"} =>
          /\ svc.nextUrl.t # "null"
          /\ ArrLen(svc.allResults) <= maxResults
          /\ svc.pagesRequested = svc.requestCount + 1

\* C9 witness: the call returned after 10 pages although the last page had a next.
C9_Witness ==
    /\ svc.pc = "resolved"
    /\ svc.pagesRequested = maxPageRequests
    /\ ~svc.envelope.dataNull
    /\ Truthy(svc.nextUrl)

\* C10: when a page that fails validation has been fetched, the call returns
\* data = null and the format error.
C10_NoPartialResults ==
    (/\ svc.invalidPage
     /\ \/ svc.pc = "resolved" /\ svc.kind = "prices"
        \/ svc.pc = "pricesResolved") =>
        /\ svc.envelope.dataNull
        /\ svc.envelope.data = <<>>
        /\ svc.envelope.error = "Invalid API response format received"

\* C10 witness: the invalid page came after a valid one whose results were kept.
C10_Witness ==
    /\ svc.pc = "resolved"
    /\ svc.kind = "prices"
    /\ svc.invalidPage
    /\ svc.requestCount >= 1
    /\ svc.allResults # <<>>
    /\ svc.envelope.dataNull

\* the URL parses, its scheme is https and its host api.octopus.energy
ConfinedUrl(url) ==
    /\ ~ParseUrl(url).throws
    /\ ParseUrl(url).protocol = "https:"
    /\ ParseUrl(url).hostname = "api.octopus.energy"

\* the next link the call holds is not null and fails the URL check
BadNextLink(sv) == Truthy(sv.nextUrl) /\ ~ConfinedUrl(sv.nextUrl.s)

\* C11: when a valid page carries a next link that fails URL validation,
\* getEnergyPrices returns at once with error = null and data = the results
\* accumulated before that page followed by the page's own results; on the
\* first page, that page's results.
C11_SilentStopOnBadNextLink ==
    [][(svc.pc = "parsing" /\ BadNextLink(svc')) =>
          /\ svc'.pc \in {"resolved", "pricesResolved"}
          /\ svc'.envelope.errorNull
          /\ ~svc'.envelope.dataNull
          /\ svc'.envelope.data = svc'.allResults
          /\ svc'.requestCount = svc.requestCount + 1
          /\ \E data \in ValidBodies :
                /\ data.next = svc'.nextUrl
                /\ svc'.envelope.data = svc.allResults \o data.results
                /\ svc.requestCount = 0 => svc'.envelope.data = data.results
      ]_vars

\* C11 witness: the bad link came on the third page; the call returned the
\* results of all three pages without an error.
C11_Witness ==
    /\ svc.pc = "resolved"
    /\ svc.kind = "prices"
    /\ BadNextLink(svc)
    /\ svc.requestCount = 3
    /\ ArrLen(svc.envelope.data) >= 3
    /\ svc.envelope.errorNull

\* C12: whenever a page fetch is under way its URL has scheme https and host
\* api.octopus.energy, a request is recorded by the limiter only for such a
\* fetch, and a step that leaves the call with a next link failing the check
\* records no request and leaves the limiter's calls as they are.
C12_HostConfinement ==
    [][/\ svc'.pc \in {"fetching", "parsing"} => ConfinedUrl(svc'.nextUrl.s)
       /\ Recorded => svc'.pc = "fetching" /\ ConfinedUrl(svc'.nextUrl.s)
       /\ BadNextLink(svc') =>
             /\ ~Recorded
             /\ requests' = requests
             /\ lastRequest' = lastRequest
             /\ callers' = callers
             /\ svc'.pagesRequested = svc.pagesRequested
      ]_vars

\* C12 witness: a page named a next link on another host, and the call ended
\* having requested no page after it.
C12_Witness ==
    /\ svc.pc = "resolved"
    /\ svc.nextUrl = JStr("https://api.octopus.energy.evil.example/v1/next-page")
    /\ svc.pagesRequested = svc.requestCount
    /\ svc.requestCount >= 2
    /\ Len(requests) >= 2

\* C13: in a request cycle getEnergyPricesImpl runs at most once per days
\* argument, whoever calls -- getEnergyPrices(d) or getCurrentPrice() with
\* d = 1, before or after the first call has settled; every await of
\* getEnergyPrices(d) returns the one result of that run; and an entry of the
\* cache was created by a call of the cycle it is in.
C13_PerCycleMemoization ==
    \A d \in DaysArgs :
        /\ cycle.runs[d] <= 1
        /\ Cardinality(cycle.delivered[d]) <= 1
        /\ cycle.cache[d].state = "none" => cycle.runs[d] = 0 /\ cycle.delivered[d] = {}
        /\ cycle.cache[d].state # "none" =>
              /\ cycle.runs[d] = 1
              /\ cycle.cache[d].startedIn = cycle.id
        /\ cycle.cache[d].state = "pending" =>
              /\ svc.pc # "idle"
              /\ svc.days = d
              /\ cycle.delivered[d] = {}
        /\ cycle.cache[d].state = "settled" =>
              cycle.delivered[d] \subseteq {cycle.cache[d].value}

\* C13 witness: in the second cycle, after an earlier run, two getEnergyPrices(1)
\* calls and a getCurrentPrice() call await one run of getEnergyPricesImpl(1)
\* that is still fetching.
C13_Witness ==
    /\ cycle.id = 1
    /\ Len(requests) >= 2
    /\ cycle.cache[1].state = "pending"
    /\ cycle.awaiting[1] = 2
    /\ cycle.current = "awaiting"
    /\ cycle.runs[1] = 1
    /\ svc.pc = "fetching"

\* C14: a getEnergyPricesImpl(days) call works with min(max(days, 1), 30) days
\* and has gone on to request the first page, whatever the integer days;
\* validateDaysParameter(String(days)) throws ValidationError when days is
\* outside [1, 30]; inside [1, 30] both use days as it is.
C14_RejectVersusClamp ==
    svc.pc # "idle" =>
        LET days == svc.days
            validated == validateDaysParameter(Str(String(days)))
        IN  /\ svc.validatedDays = Min2(Max2(days, 1), 30)
            /\ svc.periodFrom = svc.periodTo - 1 - svc.validatedDays
            /\ svc.pagesRequested >= 1
            /\ (days < 1 \/ days > 30) =>
                  /\ svc.validatedDays # days
                  /\ validated.throws
                  /\ validated.error = "ValidationError"
            /\ (days >= 1 /\ days <= 30) =>
                  /\ svc.validatedDays = days
                  /\ validated = Returned(days)

\* C14 witness: getEnergyPrices(31) returned data, fetched for 30 days.
C14_Witness ==
    /\ svc.pc = "resolved"
    /\ svc.days = 31
    /\ svc.validatedDays = 30
    /\ svc.envelope.errorNull
    /\ svc.envelope.data # <<>>

\* the failure class an error of fetchWithSecurity's work unit stands for
ErrorClass(error) ==
    CASE error.name = "RateLimitError" -> "rate-limit"
      [] error.msg \in {"API authentication failed", "API access forbidden"} -> "auth"
      [] error.msg = "API endpoint not found" -> "not-found"
      [] error.msg = "API server error" -> "server"
      [] OTHER -> "generic"

\* the failure class of a status code that is not 2xx
StatusClass(status) ==
    CASE status = 429 -> "rate-limit"
      [] status \in {401, 403} -> "auth"
      [] status = 404 -> "not-found"
      [] status \in 500..599 -> "server"
      [] OTHER -> "generic"

\* C15: when the upstream answers a page fetch with a status that is not 2xx,
\* the error the work unit throws is of the class of that status: 429
\* rate-limit, 401 and 403 authentication/forbidden, 404 not-found, 500..599
\* server error, any other generic.
C15_StatusClassification ==
    [][\A status \in Statuses :
          ((status < 200 \/ status > 299) /\ FetchResponds(status)) =>
              ErrorClass(callers'[SvcCaller].lastError) = StatusClass(status)
      ]_vars

\* the least validFrom among the points at the given indexes of a series
LeastFrom(prices, idx) ==
    CHOOSE m \in {validFromMs(prices[i]) : i \in idx} :
        \A i \in idx : m <= validFromMs(prices[i])

\* C16: when no point of the series contains now, getCurrentAndNextPrices
\* returns current = null and as next a point with the earliest validFrom
\* among those with validFrom > now, or null if there is none.
C16_NextWithoutCurrent ==
    pure.fn = "getCurrentAndNextPrices" =>
        LET prices == pure.input
            later == {i \in DOMAIN prices : validFromMs(prices[i]) > now}
        IN  (\A i \in DOMAIN prices : ~ContainsNow(prices[i], now)) =>
                /\ pure.output.currentPrice = Null
                /\ later = {} => pure.output.nextPrice = Null
                /\ later # {} =>
                      \E i \in later :
                          /\ pure.output.nextPrice = <<prices[i]>>
                          /\ validFromMs(prices[i]) = LeastFrom(prices, later)

\* C17: whatever the order of the series, current is a point containing now
\* with the earliest validFrom among the points containing now (null if there
\* is none); and when current exists, next is null only if no point starts
\* later than current, and otherwise is another point of the series, starting
\* no earlier than current, with no point starting strictly between the two.
C17_CurrentAndNext ==
    pure.fn = "getCurrentAndNextPrices" =>
        LET prices == pure.input
            out == pure.output
            hits == {i \in DOMAIN prices : ContainsNow(prices[i], now)}
        IN  /\ hits = {} => out.currentPrice = Null
            /\ hits # {} =>
                  \E c \in hits :
                      /\ out.currentPrice = <<prices[c]>>
                      /\ validFromMs(prices[c]) = LeastFrom(prices, hits)
                      /\ out.nextPrice = Null =>
                            \A i \in DOMAIN prices :
                                validFromMs(prices[i]) <= validFromMs(prices[c])
                      /\ out.nextPrice # Null =>
                            \E n \in DOMAIN prices \ {c} :
                                /\ out.nextPrice = <<prices[n]>>
                                /\ validFromMs(prices[n]) >= validFromMs(prices[c])
                                /\ \A i \in DOMAIN prices :
                                      ~(/\ validFromMs(prices[i]) > validFromMs(prices[c])
                                        /\ validFromMs(prices[i]) < validFromMs(prices[n]))

\* C17 witness: the series is given latest first; current and next are found
\* in ascending order.
C17_Witness ==
    /\ pure.fn = "getCurrentAndNextPrices"
    /\ pure.input = <<NegativeRate, CurrentRate, PastRate>>
    /\ pure.output.currentPrice = <<CurrentRate>>
    /\ pure.output.nextPrice = <<NegativeRate>>

\* C18: validateDaysParameter(String(d)) returns d for every integer d in
\* [1, 30] and throws ValidationError with field "days" for every other
\* integer d.
C18_DaysRange ==
    pure.fn = "validateDaysParameter" =>
        \A d \in -MaxDaysArg..MaxDaysArg :
            pure.input = Str(String(d)) =>
                IF d >= 1 /\ d <= 30
                THEN pure.output = Returned(d)
                ELSE /\ pure.output.throws
                     /\ pure.output.error = "ValidationError"
                     /\ pure.output.field = "days"

\* C18 witness: validateDaysParameter("31") has thrown.
C18_Witness ==
    /\ pure.fn = "validateDaysParameter"
    /\ pure.input = Str(<<"3", "1">>)
    /\ pure.output = ValidationError("days")

\* the string is wholly a decimal integer: digits, after an optional sign
IsNumericString(str) ==
    LET ds == IF str # <<>> /\ Head(str) \in {"-", "+"} THEN Tail(str) ELSE str
    IN  ds # <<>> /\ \A i \in DOMAIN ds : IsDigit(ds[i])

\* C19: validateDaysParameter throws ValidationError with field "days" for
\* every non-blank string that is not wholly a decimal integer, and returns
\* the default 3 for undefined, the empty string and strings of white space.
C19_DaysNonNumeric ==
    pure.fn = "validateDaysParameter" =>
        LET value == pure.input
            blank == \A i \in DOMAIN value.s : IsSpace(value.s[i])
        IN  /\ (value.undefined \/ blank) => pure.output = Returned(3)
            /\ (~value.undefined /\ ~blank /\ ~IsNumericString(value.s)) =>
                  /\ pure.output.throws
                  /\ pure.output.error = "ValidationError"
                  /\ pure.output.field = "days"

\* the days query value sanitizeSearchParams hands to validateDaysParameter
FirstOf(days) ==
    IF days.isArray
    THEN IF days.items = <<>> THEN Undefined ELSE Str(days.items[1])
    ELSE days.value

\* C20: sanitizeSearchParams throws nothing, returns days in [1, 30], and
\* returns the default 3 whenever validateDaysParameter rejects the value
\* (of an array, its first element).
C20_QueryNeverCrashes ==
    pure.fn = "sanitizeSearchParams" =>
        /\ ~pure.output.throws
        /\ pure.output.value \in 1..30
        /\ validateDaysParameter(FirstOf(pure.input)).throws => pure.output = Returned(3)
        /\ ~validateDaysParameter(FirstOf(pure.input)).throws =>
              pure.output.value = validateDaysParameter(FirstOf(pure.input)).value

\* C20 witness: for days = ["-5", "7"] the result is the default.
C20_Witness ==
    /\ pure.fn = "sanitizeSearchParams"
    /\ pure.input = ParamArray(<< <<"-", "5">>, <<"7">> >>)
    /\ pure.output = Returned(3)

\* a price point as the claim wants it: numeric values, time strings that
\* parse, and the value including tax within [-100, 1000]
PointIsValid(point) ==
    /\ point.isObject
    /\ point.value_exc_vat.t = "number"
    /\ point.value_inc_vat.t = "number"
    /\ point.valid_from.t = "string" /\ ~DateParse(point.valid_from.s).nan
    /\ point.valid_to.t = "string" /\ ~DateParse(point.valid_to.s).nan
    /\ point.value_inc_vat.n \in -100..1000

\* a page as the claim wants it
PageIsValid(page) ==
    /\ page.isObject
    /\ page.count.t = "number"
    /\ page.next.t = "null" \/ page.next.t = "string"
    /\ page.previous.t = "null" \/ page.previous.t = "string"
    /\ page.resultsIsArray
    /\ ~\E i \in DOMAIN page.results : ~PointIsValid(page.results[i].rate)

\* C21: validateApiResponse returns true exactly for the pages with a numeric
\* count, next and previous null or a string, and results an array of valid
\* price points; and a page it accepts is rejected once any one element is
\* replaced by a point with one offending field.
C21_PageValidation ==
    pure.fn = "validateApiResponse" =>
        /\ pure.output = PageIsValid(pure.input)
        /\ pure.output =>
              \A i \in DOMAIN pure.input.results :
                  \A bad \in BadRates :
                      ~validateApiResponse([pure.input EXCEPT !.results[i].rate = bad])

\* C21 witness: a page with the values -50 and 1000 has been accepted.
C21_Witness ==
    /\ pure.fn = "validateApiResponse"
    /\ pure.input.results =
          <<Run(NegativeRate, 1), Run([PastRate EXCEPT !.value_inc_vat = JNum(1000)], 1)>>
    /\ pure.input.next = GoodNext
    /\ pure.output = TRUE

\* the valueIncludingTax of the points of a series
ValuesOf(prices) == [i \in DOMAIN prices |-> prices[i].value_inc_vat.n]

\* n times the deviation of each position 0..n-1 from the mean position
PositionDeviations(n) ==
    [i \in 1..n |-> n * (i - 1) - SumOf([j \in 1..n |-> j - 1])]

\* n times the deviation of each value from the mean value
ValueDeviations(values) ==
    [i \in DOMAIN values |-> Len(values) * values[i] - SumOf(values)]

\* a fraction is the number q
Equals(fraction, q) == fraction.den # 0 /\ fraction.num = q * fraction.den

\* C22: calculateStats returns all zeros for an empty series; for n points it
\* returns count n, the smallest and the largest value, their arithmetic mean
\* (which lies between them) and the least-squares slope of value against
\* position 0..n-1, which is 0 when n < 2 and has a non-zero denominator when
\* n >= 2.
C22_Statistics ==
    pure.fn = "calculateStats" =>
        LET values == ValuesOf(pure.input)
            n == Len(pure.input)
            result == pure.output
            dx == PositionDeviations(n)
            dy == ValueDeviations(values)
            Sxx == SumOf([i \in 1..n |-> dx[i] * dx[i]])
            Sxy == SumOf([i \in 1..n |-> dx[i] * dy[i]])
        IN  /\ n = 0 =>
                  /\ result.min = 0 /\ result.max = 0 /\ result.count = 0
                  /\ Equals(result.avg, 0) /\ Equals(result.trend, 0)
            /\ n > 0 =>
                  /\ result.count = n
                  /\ \E i \in 1..n : result.min = values[i]
                  /\ \A i \in 1..n : result.min <= values[i]
                  /\ \E i \in 1..n : result.max = values[i]
                  /\ \A i \in 1..n : result.max >= values[i]
                  /\ result.avg.den > 0
                  /\ result.avg.num * n = SumOf(values) * result.avg.den
                  /\ result.min * result.avg.den <= result.avg.num
                  /\ result.avg.num <= result.max * result.avg.den
            /\ n = 1 => Equals(result.trend, 0)
            /\ n >= 2 =>
                  /\ result.trend.den # 0
                  /\ Sxx > 0
                  /\ result.trend.num * Sxx = Sxy * result.trend.den

\* C22 witness: the statistics of the values 10 and 20 are min 10, max 20,
\* avg 15, slope 10, count 2.
C22_Witness ==
    /\ pure.fn = "calculateStats"
    /\ ValuesOf(pure.input) = <<10, 20>>
    /\ pure.output.min = 10 /\ pure.output.max = 20 /\ pure.output.count = 2
    /\ Equals(pure.output.avg, 15)
    /\ Equals(pure.output.trend, 10)

\* C23: a call that has waited for the budget records a timestamp and invokes
\* the work unit only if the window count and the minimum interval, evaluated
\* against the limiter as it is after the wait, allow a request.
C23_RecheckAfterWait ==
    [][\A c \in Callers :
          (callers[c].pc = "waitBudget" /\ callers'[c].pc = "running") =>
              canMakeRequest(requests, lastRequest, now).allowed]_vars

\* the timestamps of reqs that have not left the window at time t
Unexpired(reqs, t) == SelectSeq(reqs, LAMBDA stamp : t - stamp < options.windowMs)

\* call c invokes the work unit in this step
Invokes(c) == callers[c].pc # "running" /\ callers'[c].pc = "running"

\* C24: a step in which a call invokes the work unit appends the current time
\* to requests and sets lastRequest to it, whatever the work unit does next;
\* every other step (a failing or timed-out work unit, a rejection by the
\* budget check, a wait) adds no timestamp and leaves lastRequest alone; and
\* the invocations of a call are counted one per such step, so a call that
\* invokes the work unit k times adds exactly k timestamps.
C24_AttemptsConsumeBudget ==
    [][/\ \A c \in Callers :
             /\ Invokes(c) => callers'[c].invocations = callers[c].invocations + 1
             /\ ~Invokes(c) /\ callers'[c].pc # "idle" =>
                   callers'[c].invocations = callers[c].invocations
             /\ Invokes(c) => \A d \in Callers \ {c} : ~Invokes(d)
       /\ (\E c \in Callers : Invokes(c)) =>
             /\ requests' \in {Append(requests, now), Append(Unexpired(requests, now), now)}
             /\ lastRequest' = now
       /\ (\A c \in Callers : ~Invokes(c)) =>
             /\ requests' \in {requests, Unexpired(requests, now)}
             /\ lastRequest' = lastRequest]_vars

\* C24 witness: a call has failed after three invocations of the work unit
\* and three timestamps are in requests.
C24_Witness ==
    /\ callers["a"].pc = "failed"
    /\ callers["a"].invocations = 3
    /\ callers["b"].pc = "idle"
    /\ Len(requests) = 3

\* C25 as claimed: in every reachable state, also after time has passed with
\* no call running, requests holds no timestamp older than now - windowMs.
C25_SlidingWindowAlways ==
    \A i \in DOMAIN requests : requests[i] >= now - options.windowMs

\* call c runs the budget check of execute in this step: it starts, or it
\* comes back from a backoff wait
ChecksBudget(c) ==
    /\ callers[c].pc \in {"idle", "backoff"}
    /\ callers'[c].pc # callers[c].pc

\* C25, amended: right after every budget check of execute, requests holds no
\* timestamp whose age is windowMs or more; the timestamps that expire
\* between two checks stay in the list until the next check drops them.
C25_SlidingWindowAtChecks ==
    [][\A c \in Callers :
          ChecksBudget(c) =>
              \A i \in DOMAIN requests' : now - requests'[i] < options.windowMs]_vars

\* C25 witness: the second attempt of a call has come after the window of
\* the first had passed; the check has dropped the first timestamp and the
\* list holds the second alone.
C25_Witness ==
    /\ callers["a"].pc = "running"
    /\ callers["a"].invocations = 2
    /\ callers["b"].pc = "idle"
    /\ requests = <<now>>
    /\ now >= StartTime + options.windowMs

\* call c is between its start and its end
Underway(c) == callers[c].pc \in {"waitBudget", "running", "backoff"}

\* C26: no call invokes the work unit more than maxRetries + 1 times, backs
\* off more than maxRetries times or waits longer than 60 s for the budget,
\* and every call that is under way eventually succeeds or fails, also when
\* its work unit never completes.
C26_ExecuteEnds ==
    /\ [](\A c \in Callers :
             /\ callers[c].invocations <= options.maxRetries + 1
             /\ callers[c].backoffs <= options.maxRetries
             /\ callers[c].pc = "waitBudget" =>
                   callers[c].wakeAt - now <= MaxWaitSeconds * 1000)
    /\ \A c \in Callers : Underway(c) ~> callers[c].pc \in {"done", "failed"}

\* C26 witness: a call has waited for the budget, has retried maxRetries
\* times, and its last work unit never completed: the timeout has ended it
\* after maxRetries + 1 invocations and maxRetries backoff waits.
C26_Witness ==
    /\ callers["a"].pc = "failed"
    /\ callers["a"].timedOut
    /\ callers["a"].denied # ""
    /\ callers["a"].invocations = options.maxRetries + 1
    /\ callers["a"].backoffs = options.maxRetries

\* C27: every price point of a successful getEnergyPrices result has
\* validFrom before validTo.
C27_IntervalsOfReturnedData ==
    (/\ \/ svc.pc = "resolved" /\ svc.kind = "prices"
        \/ svc.pc = "pricesResolved"
     /\ svc.envelope.errorNull) =>
        \A i \in DOMAIN svc.envelope.data :
            validFromMs(svc.envelope.data[i].rate) < validToMs(svc.envelope.data[i].rate)

\* the analytics functions
Analytics ==
    {"calculateStats", "getCurrentAndNextPrices", "getCheapestPrice24h", "groupPricesByDay"}

\* C28: after a call of an analytics function the series passed to it holds
\* the same elements in the same order as before the call.
C28_AnalyticsLeaveSeries ==
    pure.fn \in Analytics => pure.output.prices = pure.input

\* the waits before jitter, after failed attempt 0, 1, 2, ...
Schedule == <<1000, 2000, 4000, 8000, 16000, 30000, 30000>>

\* C29: a call that starts a backoff wait after failed attempt k sets its
\* timer to a delay between d and 1.1 * d, d being 1000 * 2^k ms capped at
\* 30000 ms, so never beyond 33000 ms; and attempt k is not the final one.
C29_BackoffSchedule ==
    [][\A c \in Callers :
          (callers'[c].pc = "backoff" /\ callers[c].pc # "backoff") =>
              LET k == callers[c].attempt
                  wait == callers'[c].wakeAt - now
              IN  /\ k < options.maxRetries
                  /\ k + 1 \in DOMAIN Schedule
                  /\ wait >= Schedule[k + 1]
                  /\ 10 * wait <= 11 * Schedule[k + 1]
                  /\ wait <= 33000]_vars

\* C29 witness: the wait after failed attempt 5 is the capped 30000 ms plus
\* the largest jitter, and the call goes on to its final attempt.
C29_Witness ==
    /\ callers["a"].pc = "backoff"
    /\ callers["a"].attempt = 5
    /\ callers["a"].attempt = options.maxRetries - 1
    /\ callers["a"].wakeAt - now = 32999

\* C30: a getStats call leaves lastRequest and the calls as they are and
\* leaves in requests exactly the unexpired timestamps; it reports their
\* number, canMakeRequest true exactly when that number is below maxRequests
\* and minInterval has passed since lastRequest, and a nextAvailableTime
\* exactly when canMakeRequest is false.
C30_GetStatsReadOnly ==
    [][(~stats.called /\ stats'.called) =>
          /\ lastRequest' = lastRequest
          /\ callers' = callers
          /\ requests' = Unexpired(requests, now)
          /\ stats'.recentRequests = Len(Unexpired(requests, now))
          /\ stats'.windowMs = options.windowMs
          /\ stats'.canMakeRequest =
                (/\ Len(Unexpired(requests, now)) < options.maxRequests
                 /\ now - lastRequest >= options.minInterval)
          /\ (stats'.nextAvailableTime # <<>>) = ~stats'.canMakeRequest
          /\ stats'.nextAvailableTime # <<>> => stats'.nextAvailableTime[1] > now]_vars

\* C30 witness: every recorded timestamp had expired when getStats was
\* called; it has dropped them all, reports none and canMakeRequest true
\* without a nextAvailableTime, and lastRequest still holds the last of them.
C30_Witness ==
    /\ stats.called
    /\ stats.recentRequests = 0
    /\ stats.canMakeRequest
    /\ stats.nextAvailableTime = <<>>
    /\ requests = <<>>
    /\ lastRequest > StartTime

====
